---- MODULE Spec2Model ----
(***************************************************************************)
(* Payment settlement orchestration of the payments mini app.              *)
(*                                                                         *)
(* Three orchestrators are modelled, each from its own source:             *)
(*   "PayPopup"  free-form pay, src/src/components/ui/PayPopup.tsx         *)
(*   "AppA"      request payment, src/src/components/App.tsx lines 58-858  *)
(*               (confirmation handled by a useEffect on the wagmi hooks)  *)
(*   "AppB"      request payment, src/src/components/App.tsx lines 921-2076*)
(*               (approval and settlement awaited inside handlePayRequest) *)
(* and the request store's status endpoints ("Api").                       *)
(*                                                                         *)
(* React semantics: the synchronous part of a handler up to its next await *)
(* is one step; the render that follows and the effects it runs are part   *)
(* of that step (Flush).  An async function that is suspended at an await  *)
(* is a task of the pool `tasks`, its pc naming the awaited call.          *)
(* wagmi semantics: useSendTransaction exposes the latest mutation of the  *)
(* component (sendTx); data (the hash) is defined once that transaction is *)
(* signed, isError once it is rejected; useWaitForTransactionReceipt turns *)
(* isTransactionConfirmed true once the receipt of that hash is observed.  *)
(***************************************************************************)
EXTENDS Integers, Sequences, FiniteSets, TLC

\* ------------------------------------------------------------------ bounds
MaxTx == 3          \* transactions handed to the wallet in one behaviour
MaxAttempts == 2    \* payment attempts started in one behaviour
MaxTasks == 2       \* async functions suspended at the same time
NumRequests == 2    \* fund requests shown to the payer
NumUsers == 3       \* users known to the store
MaxFlowAttempts == 1   \* payment attempts in one behaviour of SpecFlow

TxIds == 1..MaxTx
AttemptIds == 1..MaxAttempts
TaskIds == 1..MaxTasks
RequestIds == 1..NumRequests
UserIds == 1..NumUsers

\* null / undefined
None == 0

VARIABLES
  mounted,                 \* which orchestrator this behaviour exercises
  \* --- App state (useState / useRef)
  paymentStep,             \* "null" | "approval" | "payment"
  currentPayingRequest,    \* request id or None
  payingRequestId,         \* request id or None
  denyingRequestId,        \* request id or None
  lastProcessedHashRef,    \* tx hash or None
  \* --- PayPopup state
  showPayPopup,            \* isOpen
  selectedRecipient,       \* BOOLEAN: a recipient is selected
  amount,                  \* 0 stands for "0", 1 for a positive amount
  isProcessing,
  isBridgeStep,
  isApprovalStep,
  error,                   \* BOOLEAN: error message is non-null
  processedTransactions,   \* set of tx hashes
  \* --- wagmi hooks of the mounted component
  sendTx,                  \* the latest mutation of useSendTransaction (tx id or None)
  isTransactionConfirmed,  \* useWaitForTransactionReceipt({hash}).isSuccess
  \* --- wallet and chain
  txs,                     \* every transaction handed to the wallet
  \* --- suspended async functions
  tasks,
  \* --- request store (prisma fundRequest.status)
  status,
  \* --- history of the run, read by the properties only
  attempts,                \* what each started attempt is and how it went
  curAttempt,              \* the attempt that last initialised the orchestrator state
  completions,             \* <<hash, attempt>> -> times completion side effects ran
  env,                     \* what the world outside the client is like in this
                           \* behaviour (stored preferences, chain state)
  events,                  \* <<what, hash, attempt>>: the event of transaction `hash`
                           \* advanced ("advance"), completed ("complete") or failed
                           \* ("fail") the attempt that owned the orchestrator state
  \* --- the server's tables and clock (the specifications of the client keep
  \*     the request statuses in `status` and leave these alone)
  now,                     \* Date.now(), in ticks
  users,                   \* prisma.user: fid -> row or NoUser
  fundRequests,            \* prisma.fundRequest: id -> row or NoRequest
  \* --- one call of a function or route handler and what it answered
  call,
  result

vars == << mounted, paymentStep, currentPayingRequest, payingRequestId,
           denyingRequestId, lastProcessedHashRef, showPayPopup,
           selectedRecipient, amount, isProcessing, isBridgeStep,
           isApprovalStep, error, processedTransactions, sendTx,
           isTransactionConfirmed, txs, tasks, status, attempts, curAttempt,
           completions, events, env, now, users, fundRequests, call, result >>

serverVars == << now, users, fundRequests, call, result >>

\* ------------------------------------------------------------ state record
\* The current state as one record, so that a handler and the effects that
\* follow it compose as functions.  ok = FALSE: a bound of the model was hit.
Cur ==
  [ ok |-> TRUE,
    mounted |-> mounted,
    paymentStep |-> paymentStep,
    currentPayingRequest |-> currentPayingRequest,
    payingRequestId |-> payingRequestId,
    denyingRequestId |-> denyingRequestId,
    lastProcessedHashRef |-> lastProcessedHashRef,
    showPayPopup |-> showPayPopup,
    selectedRecipient |-> selectedRecipient,
    amount |-> amount,
    isProcessing |-> isProcessing,
    isBridgeStep |-> isBridgeStep,
    isApprovalStep |-> isApprovalStep,
    error |-> error,
    processedTransactions |-> processedTransactions,
    sendTx |-> sendTx,
    isTransactionConfirmed |-> isTransactionConfirmed,
    txs |-> txs,
    tasks |-> tasks,
    status |-> status,
    attempts |-> attempts,
    curAttempt |-> curAttempt,
    completions |-> completions,
    events |-> events,
    env |-> env ]

Commit(s) ==
  /\ s.ok
  /\ mounted' = s.mounted
  /\ paymentStep' = s.paymentStep
  /\ currentPayingRequest' = s.currentPayingRequest
  /\ payingRequestId' = s.payingRequestId
  /\ denyingRequestId' = s.denyingRequestId
  /\ lastProcessedHashRef' = s.lastProcessedHashRef
  /\ showPayPopup' = s.showPayPopup
  /\ selectedRecipient' = s.selectedRecipient
  /\ amount' = s.amount
  /\ isProcessing' = s.isProcessing
  /\ isBridgeStep' = s.isBridgeStep
  /\ isApprovalStep' = s.isApprovalStep
  /\ error' = s.error
  /\ processedTransactions' = s.processedTransactions
  /\ sendTx' = s.sendTx
  /\ isTransactionConfirmed' = s.isTransactionConfirmed
  /\ txs' = s.txs
  /\ tasks' = s.tasks
  /\ status' = s.status
  /\ attempts' = s.attempts
  /\ curAttempt' = s.curAttempt
  /\ completions' = s.completions
  /\ events' = s.events
  /\ env' = s.env
  /\ UNCHANGED serverVars

\* ------------------------------------------------------------------- store
NoTx == [kind |-> "none", att |-> None, req |-> None, st |-> "unused", wait |-> "none"]
\* a suspended async function: the call it awaits, its attempt and request, the
\* currentPayingRequest of its closure (pay), the transaction it awaits (tx),
\* the network its quote named (target), the network the wallet is on
\* (wallet), how many times it has requested a payment quote (quotes), and the
\* token and decimals it goes on with after the quote.
\* Networks are named relative to the click: "selected" is the one
\* the wallet was on when Pay was pressed (the closure's chainId and
\* publicClient), "quoted" a different one named by the quote.
NoTask == [pc |-> "idle", att |-> None, req |-> None, pay |-> None, tx |-> None,
           target |-> "none", wallet |-> "selected", quotes |-> 0,
           token |-> "none", decimals |-> "none"]
NoAttempt == [started |-> FALSE, kind |-> "none", req |-> None, plan |-> "none",
              allowanceFailed |-> FALSE, failed |-> FALSE]

\* request.sender is the user who asked for the money, request.receiver the payer
Sender(r) == IF r = 1 THEN 1 ELSE 3
Receiver(r) == 2
\* the payer whose client is modelled (context.user.fid)
Payer == 2

validStatuses == {"PENDING", "ACCEPTED", "REJECTED", "EXPIRED"}


\* -------------------------------------------------------------- primitives
Min(S) == CHOOSE x \in S : \A y \in S : x <= y

FreeTxs(s) == {t \in TxIds : s.txs[t].st = "unused"}
FreeTasks(s) == {i \in TaskIds : s.tasks[i].pc = "idle"}
FreeAttempts(s) ==
  {a \in AttemptIds : ~s.attempts[a].started /\ a <= s.env.maxAttempts}

\* useSendTransaction().data: the hash of the latest mutation once it is signed
transactionHash(s) ==
  IF s.sendTx # None /\ s.txs[s.sendTx].st \in {"sent", "confirmed", "reverted"}
  THEN s.sendTx ELSE None

\* useSendTransaction().isError: the latest mutation was rejected by the wallet
isTransactionError(s) == s.sendTx # None /\ s.txs[s.sendTx].st = "rejected"

\* sendTransaction / sendTransactionAsync: a new mutation replaces the hook's
\* state (data undefined, no error) and the wallet prompts for the signature.
SendTransaction(s, kind, att, req) ==
  IF ~s.ok \/ FreeTxs(s) = {} THEN [s EXCEPT !.ok = FALSE]
  ELSE LET t == Min(FreeTxs(s)) IN
       [s EXCEPT !.txs[t] = [kind |-> kind, att |-> att, req |-> req,
                             st |-> "prompt", wait |-> "none"],
                 !.sendTx = t,
                 !.isTransactionConfirmed = FALSE]

\* an async function reaches an await: it is suspended as a task
Spawn(s, task) ==
  IF ~s.ok \/ FreeTasks(s) = {} THEN [s EXCEPT !.ok = FALSE]
  ELSE [s EXCEPT !.tasks[Min(FreeTasks(s))] = task]

EndTask(s, i) == [s EXCEPT !.tasks[i] = NoTask]

MarkFailed(s, a) ==
  IF a = None THEN s ELSE [s EXCEPT !.attempts[a].failed = TRUE]

\* a click on Pay starts a payment attempt
NewAttempt(s, kind, req) ==
  IF ~s.ok \/ FreeAttempts(s) = {} THEN [s EXCEPT !.ok = FALSE]
  ELSE LET a == Min(FreeAttempts(s)) IN
       [s EXCEPT !.attempts[a] = [NoAttempt EXCEPT !.started = TRUE,
                                                   !.kind = kind, !.req = req],
                 !.curAttempt = a]

\* ----------------------------------------------------- request store (API)
\* PATCH /api/fund-requests/[id]: any valid status replaces the stored one
PATCH_id(st, id, newStatus) ==
  IF newStatus \notin validStatuses THEN st
  ELSE [st EXCEPT ![id] = newStatus]

\* PATCH /api/fund-requests/[fid]: the actor must be the request's sender or
\* receiver; then any valid status replaces the stored one
PATCH_fid(st, fid, requestId, newStatus) ==
  IF newStatus \notin validStatuses THEN st
  ELSE IF Receiver(requestId) # fid /\ Sender(requestId) # fid THEN st
  ELSE [st EXCEPT ![requestId] = newStatus]

\* updateRequestStatus of the mounted App: AppA goes through useFundRequests
\* (PATCH by request id), AppB through its own callback (PATCH by actor fid)
updateRequestStatus(s, requestId, newStatus) ==
  IF s.mounted = "AppB"
  THEN [s EXCEPT !.status = PATCH_fid(s.status, Payer, requestId, newStatus)]
  ELSE [s EXCEPT !.status = PATCH_id(s.status, requestId, newStatus)]


\* ------------------------------------------------------------------ effects
RecordCompletion(s, h, a) ==
  [s EXCEPT !.completions[<<h, a>>] = @ + 1,
            !.events = @ \cup {<<"complete", h, a>>}]

\* PayPopup, "Handle transaction errors or cancellation": deps are
\* [isTransactionError, transactionError], so it runs when the hook's error appears
PopupTransactionErrorEffect(s) ==
  IF isTransactionError(s)
  THEN MarkFailed([s EXCEPT !.isProcessing = FALSE,
                            !.isApprovalStep = FALSE,
                            !.error = TRUE,
                            !.events = @ \cup {<<"fail", s.sendTx, s.curAttempt>>}],
                  s.curAttempt)
  ELSE s

\* PayPopup resetApproval (the approval flags it also resets are not modelled:
\* handleApproval is never wired to the UI, so isApproving stays false)
resetApproval(s) ==
  [s EXCEPT !.error = FALSE,
            !.isBridgeStep = FALSE,
            !.processedTransactions = {}]

\* the processedTransactions guard of PayPopup's confirmation effect
PopupAlreadyProcessed(s) == transactionHash(s) \in s.processedTransactions

\* PayPopup, "Reset state when bridge transaction is confirmed"
PopupConfirmedEffect(s) ==
  IF s.isTransactionConfirmed /\ transactionHash(s) # None
  THEN IF PopupAlreadyProcessed(s) THEN s
       ELSE LET h == transactionHash(s)
                s1 == [s EXCEPT !.processedTransactions = @ \cup {h}]
            IN IF s.isBridgeStep
               THEN RecordCompletion(
                      [resetApproval([s1 EXCEPT !.isProcessing = FALSE,
                                                !.isBridgeStep = FALSE])
                         EXCEPT !.selectedRecipient = FALSE,
                                !.amount = 0,
                                !.showPayPopup = FALSE],
                      h, s.curAttempt)
               ELSE s1
  ELSE s

\* a variant of the App error effect that records the failed payment as a
\* denial of the request
AppTransactionErrorEffectDenies(s) ==
  IF isTransactionError(s) /\ s.currentPayingRequest # None /\ s.paymentStep # "null"
  THEN MarkFailed([updateRequestStatus(s, s.currentPayingRequest, "REJECTED")
                     EXCEPT !.currentPayingRequest = None,
                            !.paymentStep = "null",
                            !.payingRequestId = None,
                            !.lastProcessedHashRef = None,
                            !.events = @ \cup {<<"fail", s.sendTx, s.curAttempt>>}],
                  s.curAttempt)
  ELSE s

\* App, "Handle transaction errors or cancellation" (both App sources; AppB
\* also clears processedHashesRef, which nothing reads)
AppTransactionErrorEffect(s) ==
  IF isTransactionError(s) /\ s.currentPayingRequest # None /\ s.paymentStep # "null"
  THEN MarkFailed([s EXCEPT !.currentPayingRequest = None,
                            !.paymentStep = "null",
                            !.payingRequestId = None,
                            !.lastProcessedHashRef = None,
                            !.events = @ \cup {<<"fail", s.sendTx, s.curAttempt>>}],
                  s.curAttempt)
  ELSE s

\* AppA executePaymentTransaction up to its first await (fetch /api/getSwapData).
\* `cpr` is the currentPayingRequest of the closure the call runs in.
executePaymentTransactionA(s, att, cpr) ==
  IF cpr = None THEN s    \* "Missing required data for payment": return
  ELSE Spawn(s, [pc |-> "A_getSwapData", att |-> att, req |-> cpr,
                 pay |-> cpr, tx |-> None,
                 target |-> "none", wallet |-> "selected", quotes |-> 0,
                 token |-> "none", decimals |-> "none"])

\* the lastProcessedHashRef guard of AppA's confirmation effect
AppAlreadyProcessed(s) == s.lastProcessedHashRef = transactionHash(s)

\* AppA, "Handle transaction confirmation"
AppConfirmedEffect(s) ==
  IF s.isTransactionConfirmed /\ s.currentPayingRequest # None /\ s.paymentStep # "null"
  THEN IF AppAlreadyProcessed(s) THEN s
       ELSE LET h == transactionHash(s)
                s1 == [s EXCEPT !.lastProcessedHashRef = h]
            IN IF s.paymentStep = "approval"
               THEN executePaymentTransactionA(
                      [s1 EXCEPT !.paymentStep = "payment",
                                 !.events = @ \cup {<<"advance", h, s.curAttempt>>}],
                      s.curAttempt, s.currentPayingRequest)
               ELSE RecordCompletion(
                      [updateRequestStatus(s1, s.currentPayingRequest, "ACCEPTED")
                         EXCEPT !.currentPayingRequest = None,
                                !.paymentStep = "null",
                                !.payingRequestId = None,
                                !.lastProcessedHashRef = None],
                      h, s.curAttempt)
  ELSE s

\* the effects of the mounted component, in declaration order
Effects(s) ==
  CASE s.mounted = "PayPopup" -> PopupConfirmedEffect(s)
    [] s.mounted = "AppA" -> AppConfirmedEffect(AppTransactionErrorEffect(s))
    [] s.mounted = "AppB" -> AppTransactionErrorEffect(s)
    [] OTHER -> s

\* render and run the effects until nothing changes
RECURSIVE Flush(_)
Flush(s) ==
  IF ~s.ok THEN s
  ELSE LET s1 == Effects(s) IN IF s1 = s THEN s ELSE Flush(s1)


\* --------------------------------------------------------------------- Init
InitState ==
  /\ mounted \in {"PayPopup", "AppA", "AppB", "Api"}
  /\ paymentStep = "null"
  /\ currentPayingRequest = None
  /\ payingRequestId = None
  /\ denyingRequestId = None
  /\ lastProcessedHashRef = None
  /\ showPayPopup = FALSE
  /\ selectedRecipient = FALSE
  /\ amount = 0
  /\ isProcessing = FALSE
  /\ isBridgeStep = FALSE
  /\ isApprovalStep = FALSE
  /\ error = FALSE
  /\ processedTransactions = {}
  /\ sendTx = None
  /\ isTransactionConfirmed = FALSE
  /\ txs = [t \in TxIds |-> NoTx]
  /\ tasks = [i \in TaskIds |-> NoTask]
  /\ status = [r \in RequestIds |-> "PENDING"]
  /\ attempts = [a \in AttemptIds |-> NoAttempt]
  /\ curAttempt = None
  /\ completions = [p \in TxIds \X (0..MaxAttempts) |-> 0]
  /\ events = {}

\* ------------------------------------------------------------- environment
\* the outcomes of the calls a handler awaits, and the inputs of the API
QuoteOutcomes == {"same", "other", "fail"}
CallOutcomes == {"ok", "fail"}
AllowanceOutcomes == {"needed", "notNeeded", "throws"}
WaitOutcomes == {"receipt", "error"}
SwapOutcomes == {"direct", "bridge", "fail"}
RegistryOutcomes == {"found", "missing"}
PatchInputs == validStatuses \cup {"BOGUS"}

\* A stored address as the server sees it: whether it starts with "0x", its
\* length, and whether it contains "..." (a display-truncated address)
ValidEvmAddress == [prefix0x |-> TRUE, len |-> 42, ellipsis |-> FALSE]
\* "0x524...5FB2"
TruncatedAddress == [prefix0x |-> TRUE, len |-> 12, ellipsis |-> TRUE]
ShortAddress == [prefix0x |-> TRUE, len |-> 40, ellipsis |-> FALSE]
SolanaAddress == [prefix0x |-> FALSE, len |-> 44, ellipsis |-> FALSE]
Addresses == {ValidEvmAddress, TruncatedAddress, ShortAddress, SolanaAddress}

\* handleSimplifiedBridgeRequest, "Validate address format and length", for a
\* receiver whose preferred chain is an EVM chain or Solana
AddressAccepted(addr, isSolanaDestination) ==
  LET isEthAddress == addr.prefix0x /\ addr.len = 42
      isSolanaAddress == ~addr.prefix0x /\ addr.len = 44
  IN /\ ~addr.ellipsis
     /\ isSolanaDestination => isSolanaAddress
     /\ ~isSolanaDestination => isEthAddress

\* the payer's allowance to the gateway for the quoted token: it covers the
\* required amount, or it falls short of it
Allowances == {"covers", "short"}

\* checkTokenApprovalNeeded answers needsApproval = currentAllowance <
\* requiredAmount from the allowance it reads on chain, or the read throws
AllowanceAnswers(s, o) ==
  /\ o = "needed" => s.env.allowance # "covers"
  /\ o = "notNeeded" => s.env.allowance # "short"

\* the payment-quote service answers as the environment fixes it: with the
\* wallet's network ("same"), with another one ("other"), or not at all
\* ("fail": the request fails, no quote is returned or its blockchain is unmapped)
QuoteAnswers(s, o) == s.env.quote \in {"any", o}

\* the wallet performs or refuses the network switch
SwitchAnswers(s, o) == s.env.switch \in {"any", o}

\* bridgeTransaction.transaction of a successful /api/getSwapData response: the
\* strings `to` and `data` by their "0x" prefix and their length (0: absent)
WellFormedTransaction ==
  [to |-> [prefix0x |-> TRUE, len |-> 42], data |-> [prefix0x |-> TRUE, len |-> 138]]
Transactions ==
  {WellFormedTransaction,
   [WellFormedTransaction EXCEPT !.to = [prefix0x |-> TRUE, len |-> 0]],
   [WellFormedTransaction EXCEPT !.to = [prefix0x |-> TRUE, len |-> 12]],
   [WellFormedTransaction EXCEPT !.to = [prefix0x |-> FALSE, len |-> 42]],
   [WellFormedTransaction EXCEPT !.data = [prefix0x |-> FALSE, len |-> 138]],
   [WellFormedTransaction EXCEPT !.data = [prefix0x |-> TRUE, len |-> 2]]}

\* `!bridgeTransaction || !bridgeTransaction.to || !bridgeTransaction.data`
\* does not throw: both strings are there
TransactionPresent(tx) == tx.to.len > 0 /\ tx.data.len > 0

\* PayPopup, "Validate transaction parameters" and "Additional validation"
PopupTransactionValid(tx) ==
  /\ TransactionPresent(tx)
  /\ tx.to.prefix0x /\ tx.to.len = 42
  /\ tx.data.prefix0x
  /\ ~(tx.data.len < 10)

\* which fields the quotes of the payment-quote service carry
CompleteQuote == [tokenSymbol |-> TRUE, tokenDecimals |-> TRUE]
QuoteFields == [tokenSymbol : BOOLEAN, tokenDecimals : BOOLEAN]

\* PayPopup: String(quote.tokenSymbol || selectedToken).toUpperCase()
tokenFromQuote(s) ==
  IF s.env.quoteFields.tokenSymbol THEN "quoted" ELSE "selectedToken"

\* App: String(quote.tokenSymbol || "USDC").toUpperCase()
tokenSymbol(s) ==
  IF s.env.quoteFields.tokenSymbol THEN "quoted" ELSE "USDC"

\* App: Number(quote.tokenDecimals ?? 6)
tokenDecimals(s) ==
  IF s.env.quoteFields.tokenDecimals THEN "quoted" ELSE "6"

\* the environment of Spec: the receiver's stored address is a valid one and
\* nothing else is fixed ("any": every outcome of a call may happen)
EnvAny == [maxAttempts |-> MaxAttempts, address |-> ValidEvmAddress,
           allowance |-> "any", quote |-> "any", switch |-> "any",
           transaction |-> WellFormedTransaction, quoteFields |-> CompleteQuote]

\* the environments of SpecFlow: the payer makes MaxFlowAttempts attempts and
\* one aspect of the world is fixed
EnvFlow == [EnvAny EXCEPT !.maxAttempts = MaxFlowAttempts]
FlowEnvs ==
  {[EnvFlow EXCEPT !.address = a] : a \in Addresses}
    \cup {[EnvFlow EXCEPT !.allowance = x] : x \in Allowances}
    \cup {[EnvFlow EXCEPT !.quote = q] : q \in QuoteOutcomes}
    \cup {[EnvFlow EXCEPT !.quote = "other", !.switch = "fail"]}
    \cup {[EnvFlow EXCEPT !.transaction = x] : x \in Transactions}
    \cup {[EnvFlow EXCEPT !.quoteFields = x] : x \in QuoteFields}

\* POST /api/getSwapData answers with a transaction only if the receiver's
\* stored address passes the server's validation
SwapDataAnswers(s, o) ==
  o # "fail" => AddressAccepted(s.env.address, FALSE)


\* --------------------------------------------------------------- parseFloat
\* An amount travels as text, here the sequence of its characters.
Digits == {"0", "1", "2", "3", "4", "5", "6", "7", "8", "9"}
DigitValue(c) ==
  CASE c = "0" -> 0 [] c = "1" -> 1 [] c = "2" -> 2 [] c = "3" -> 3
    [] c = "4" -> 4 [] c = "5" -> 5 [] c = "6" -> 6 [] c = "7" -> 7
    [] c = "8" -> 8 [] c = "9" -> 9

RECURSIVE Pow10(_)
Pow10(k) == IF k = 0 THEN 1 ELSE 10 * Pow10(k - 1)

\* how many digits str has from position i on, before any other character
RECURSIVE DigitRun(_, _)
DigitRun(str, i) ==
  IF i <= Len(str) /\ str[i] \in Digits THEN 1 + DigitRun(str, i + 1) ELSE 0

\* the number written by the n digits of str that start at position i
RECURSIVE NumberOf(_, _, _)
NumberOf(str, i, n) ==
  IF n = 0 THEN 0
  ELSE 10 * NumberOf(str, i, n - 1) + DigitValue(str[i + n - 1])

\* a number is NaN or (-1)^neg * digits / 10^scale
NaN == [nan |-> TRUE, neg |-> FALSE, digits |-> 0, scale |-> 0]

\* parseFloat reads the longest prefix that is a decimal literal (a sign, digits,
\* a point, digits) and ignores what follows it; NaN if that prefix has no digit.
\* (Exponents and leading blanks are not among the inputs modelled.)
parseFloat(str) ==
  LET neg == Len(str) > 0 /\ str[1] = "-"
      i == IF neg THEN 2 ELSE 1
      ni == DigitRun(str, i)
      hasPoint == i + ni <= Len(str) /\ str[i + ni] = "."
      nf == IF hasPoint THEN DigitRun(str, i + ni + 1) ELSE 0
  IN IF ni + nf = 0 THEN NaN
     ELSE [nan |-> FALSE, neg |-> neg,
           digits |-> NumberOf(str, i, ni) * Pow10(nf) + NumberOf(str, i + ni + 1, nf),
           scale |-> nf]

isNaN(x) == x.nan
\* `x <= 0` (false for NaN, true for -0)
AtMostZero(x) == ~x.nan /\ (x.neg \/ x.digits = 0)

\* ---------------------------------------------------------------- registry
\* SUPPORTED_CHAINS, four of its nine entries: Base (a gateway contract,
\* 6 decimals), BNB Chain (a gateway contract, 18 decimals), Movement and
\* Solana (no gateway contract: "Native Integration")
SUPPORTED_CHAINS ==
  [c \in {8453, 56, 30732, 1329} |->
     CASE c = 8453 -> [gatewayContract |-> "0xGateway",
                       tokens |-> {[symbol |-> "USDC", decimals |-> 6]}]
       [] c = 56 -> [gatewayContract |-> "0xGateway",
                     tokens |-> {[symbol |-> "BSC-USD", decimals |-> 18]}]
       [] c = 30732 -> [gatewayContract |-> "Native Integration",
                        tokens |-> {[symbol |-> "USDC", decimals |-> 6],
                                    [symbol |-> "USDT", decimals |-> 6]}]
       [] c = 1329 -> [gatewayContract |-> "Native Integration",
                       tokens |-> {[symbol |-> "USDC", decimals |-> 6],
                                   [symbol |-> "USDT", decimals |-> 6]}]]

\* the form of the token addresses the registry lists for each network: "0x"
\* followed by 40 hexadecimal digits, or a base58 public key (Solana only)
TokenAddressStyle ==
  [c \in DOMAIN SUPPORTED_CHAINS |-> IF c = 1329 THEN "base58" ELSE "0x"]

\* what getTokenInfo returns when the network or the token is not registered
undefined == [symbol |-> "undefined", decimals |-> 0]

\* a lookup that falls back on a token of the network
getTokenInfoDefault(chainId, symbol) ==
  IF chainId \notin DOMAIN SUPPORTED_CHAINS THEN undefined
  ELSE LET found == {x \in SUPPORTED_CHAINS[chainId].tokens : x.symbol = symbol}
       IN IF found = {} THEN CHOOSE x \in SUPPORTED_CHAINS[chainId].tokens : TRUE
          ELSE CHOOSE x \in found : TRUE

getTokenInfo(chainId, symbol) ==
  IF chainId \notin DOMAIN SUPPORTED_CHAINS THEN undefined
  ELSE LET found == {x \in SUPPORTED_CHAINS[chainId].tokens : x.symbol = symbol}
       IN IF found = {} THEN undefined ELSE CHOOSE x \in found : TRUE

\* the tokens of a network; none for a network that is not registered
getTokensForChain(chainId) ==
  IF chainId \in DOMAIN SUPPORTED_CHAINS THEN SUPPORTED_CHAINS[chainId].tokens ELSE {}

CHAIN_ENUM_TO_ID == [e \in {"BASE", "BNB", "MOVEMENT", "SOLANA"} |->
                       CASE e = "BASE" -> 8453 [] e = "BNB" -> 56
                         [] e = "MOVEMENT" -> 30732 [] e = "SOLANA" -> 1329]
TOKEN_ENUM_TO_SYMBOL == [e \in {"USDC", "BSC_USD", "USDT", "SOL"} |->
                           IF e = "BSC_USD" THEN "BSC-USD" ELSE e]

\* ------------------------------------------------------ the server's tables
MaxTime == 2            \* ticks of the server's clock
MaxStoreUsers == 2      \* fids that reach the server
MaxStoreRequests == 1   \* fund requests the server creates

StoreFids == 1..MaxStoreUsers
StoreRequestIds == 1..MaxStoreRequests

\* ""
EmptyAddress == [prefix0x |-> FALSE, len |-> 0, ellipsis |-> FALSE]

NoUser == [exists |-> FALSE, preferredChain |-> "BASE", preferredToken |-> "USDC",
           preferredAddress |-> EmptyAddress]
NoRequest == [exists |-> FALSE, senderId |-> None, receiverId |-> None,
              amount |-> NaN, expiresAt |-> None, status |-> "PENDING"]

\* the text of the amounts that reach the server: "5", "0", "-5", "abc", "5abc"
\* and "" (or no amount at all)
AmountTexts == { <<"5">>, <<"0">>, <<"-", "5">>, <<"a", "b", "c">>,
                 <<"5", "a", "b", "c">>, <<>> }

\* expiresAt of a creation request: absent, or a time
ExpiresAtInputs == {None} \cup (1..(MaxTime - 1))

\* what Neynar knows of a fid: a primary ETH address, none, or nothing at all
NeynarOutcomes == {"eth", "none", "fail"}
primaryEth(o) == IF o = "eth" THEN ValidEvmAddress ELSE EmptyAddress

\* prisma.user.create with the defaults every creation site uses
createUser(us, fid, preferredAddress) ==
  [us EXCEPT ![fid] = [exists |-> TRUE, preferredChain |-> "BASE",
                       preferredToken |-> "USDC",
                       preferredAddress |-> preferredAddress]]

\* the user table after findOrCreateUser(fid); the function returns the row of
\* fid in that table, null if there is none
findOrCreateUser(us, fid, o) ==
  IF us[fid].exists THEN us
  ELSE IF o = "fail" THEN us
  ELSE createUser(us, fid, primaryEth(o))

FreeRequestIds(frs) == {r \in StoreRequestIds : ~frs[r].exists}

\* prisma.fundRequest.create as the three creation routes call it
createFundRequest(frs, senderId, receiverId, parsedAmount, expiresAt) ==
  [frs EXCEPT ![Min(FreeRequestIds(frs))] =
     [exists |-> TRUE, senderId |-> senderId, receiverId |-> receiverId,
      amount |-> parsedAmount,
      expiresAt |-> IF expiresAt # None THEN expiresAt ELSE None,
      status |-> "PENDING"]]

\* the preferences route's maps from its inputs to the stored enums (of the
\* nine networks and nine symbols: two account-model networks, Solana, and
\* their symbols)
CHAIN_ID_TO_ENUM == [c \in {8453, 56, 1329} |->
                       CASE c = 8453 -> "BASE" [] c = 56 -> "BNB" [] c = 1329 -> "SOLANA"]
TOKEN_SYMBOL_TO_ENUM == [x \in {"USDC", "BSC-USD", "USDT", "SOL"} |->
                           IF x = "BSC-USD" THEN "BSC_USD" ELSE x]

\* the inputs of PUT /api/users/preferences: a network (999: not a supported
\* one), a symbol ("DOGE": not a known one), an address
PreferenceChainIds == {8453, 1329, 999}
PreferenceSymbols == {"USDC", "SOL", "DOGE"}
PreferenceAddresses == Addresses \cup {EmptyAddress}

\* no call is under way; a call that was not answered yet
NoCall == [fn |-> "none"]
NoResult == [done |-> FALSE]

clientVars == << mounted, paymentStep, currentPayingRequest, payingRequestId,
                 denyingRequestId, lastProcessedHashRef, showPayPopup,
                 selectedRecipient, amount, isProcessing, isBridgeStep,
                 isApprovalStep, error, processedTransactions, sendTx,
                 isTransactionConfirmed, txs, tasks, status, attempts,
                 curAttempt, completions, events, env >>

\* the server's tables are empty, its clock at 0, no call is under way
ServerIdle ==
  /\ now = 0
  /\ users = [f \in StoreFids |-> NoUser]
  /\ fundRequests = [r \in StoreRequestIds |-> NoRequest]
  /\ call = NoCall
  /\ result = NoResult

Init == InitState /\ env = EnvAny /\ ServerIdle

InitFlow == InitState /\ env \in FlowEnvs /\ ServerIdle

\* ----------------------------------------------------------------- PayPopup
\* the network a quote names: the wallet's active one ("same") or another one
targetChainId(o) == IF o = "same" THEN "selected" ELSE "quoted"

\* switchChainAsync({chainId: targetChainId}) resolved: the wallet is on the
\* network of the quote
switchChain(s, i) == [s EXCEPT !.tasks[i].wallet = s.tasks[i].target]

SetTask(s, i, pc, tx) == [s EXCEPT !.tasks[i].pc = pc, !.tasks[i].tx = tx]

\* the network of the publicClient a suspended call of PayPopup reads the chain
\* with: usePublicClient() of the render in which the callback was created,
\* that is, the network the wallet was on when Pay was pressed
publicClient(s, i) == "selected"

\* executeBridgeTransaction goes on to "2) Check and perform approval" with the
\* token it takes from the quote
PopupCheckApproval(s, i) ==
  SetTask([s EXCEPT !.tasks[i].token = tokenFromQuote(s)],
          i, "P_checkTokenApprovalNeeded", None)

\* ActionSheet onPayClick
OpenPayPopup ==
  /\ mounted = "PayPopup"
  /\ ~showPayPopup
  /\ Commit(Flush([Cur EXCEPT !.showPayPopup = TRUE]))

\* a recipient is picked in the dropdown
SelectRecipient ==
  /\ mounted = "PayPopup"
  /\ showPayPopup /\ ~selectedRecipient
  /\ Commit(Flush([Cur EXCEPT !.selectedRecipient = TRUE]))

\* the number pad sets a positive amount
EnterAmount ==
  /\ mounted = "PayPopup"
  /\ showPayPopup /\ amount = 0
  /\ Commit(Flush([Cur EXCEPT !.amount = 1]))

\* PayPopup handleClose (close button or overlay)
handleClose ==
  /\ mounted = "PayPopup"
  /\ showPayPopup
  /\ Commit(Flush([resetApproval([Cur EXCEPT !.error = FALSE,
                                             !.isProcessing = FALSE,
                                             !.isApprovalStep = FALSE,
                                             !.isBridgeStep = FALSE])
                      EXCEPT !.selectedRecipient = FALSE,
                             !.amount = 0,
                             !.showPayPopup = FALSE]))

\* the Pay button of PayPopup is enabled
PayButtonEnabled ==
  /\ showPayPopup
  /\ selectedRecipient
  /\ ~isProcessing
  /\ amount # 0

\* handlePay -> executeBridgeTransaction up to `await fetchPaymentQuote`
handlePay ==
  /\ mounted = "PayPopup"
  /\ PayButtonEnabled
  /\ LET s1 == NewAttempt(Cur, "popup", None)
         s2 == [s1 EXCEPT !.isProcessing = TRUE,
                          !.isBridgeStep = TRUE,
                          !.error = FALSE]
         s3 == Spawn(s2, [pc |-> "P_fetchPaymentQuote", att |-> s1.curAttempt,
                          req |-> None, pay |-> None, tx |-> None,
                          target |-> "none", wallet |-> "selected", quotes |-> 1,
                          token |-> "none", decimals |-> "none"])
     IN Commit(Flush(s3))

\* the catch block of executeBridgeTransaction
CatchPopup(s, i) ==
  MarkFailed(EndTask([s EXCEPT !.error = TRUE, !.isProcessing = FALSE], i),
             s.tasks[i].att)

\* the inner catch of executeBridgeTransaction around the approval check and
\* step: "Approval check/step failed (continuing to attempt bridge)"
CatchPopupApproval(s, i) ==
  SetTask([s EXCEPT !.isApprovalStep = FALSE], i, "P_getSwapData", None)

\* a variant of the quote step that falls back to the wallet's network when no
\* quote is available
PopupQuoteReturnsGuesses(i, o) ==
  /\ mounted = "PayPopup"
  /\ tasks[i].pc = "P_fetchPaymentQuote"
  /\ QuoteAnswers(Cur, o)
  /\ LET s1 == [Cur EXCEPT !.tasks[i].target = targetChainId(o)]
         s2 == [Cur EXCEPT !.tasks[i].target = "selected"]
     IN Commit(Flush(
       CASE o = "same" -> PopupCheckApproval(s1, i)
         [] o = "other" -> SetTask(s1, i, "P_switchChainAsync", None)
         [] OTHER -> PopupCheckApproval(s2, i)))

\* fetchPaymentQuote returns: the quoted chain is the wallet's ("same") or
\* another one ("other"), or the call fails / returns no quote / names an
\* unmapped blockchain ("fail")
PopupQuoteReturns(i, o) ==
  /\ mounted = "PayPopup"
  /\ tasks[i].pc = "P_fetchPaymentQuote"
  /\ QuoteAnswers(Cur, o)
  /\ LET s1 == [Cur EXCEPT !.tasks[i].target = targetChainId(o)] IN
     Commit(Flush(
       CASE o = "same" -> PopupCheckApproval(s1, i)
         [] o = "other" -> SetTask(s1, i, "P_switchChainAsync", None)
         [] OTHER -> CatchPopup(Cur, i)))

\* a variant of the switch step that treats a refused switch like a failed
\* approval step: it logs and goes on
PopupSwitchReturnsGoesOn(i, o) ==
  /\ mounted = "PayPopup"
  /\ tasks[i].pc = "P_switchChainAsync"
  /\ SwitchAnswers(Cur, o)
  /\ Commit(Flush(
       IF o = "ok" THEN PopupCheckApproval(switchChain(Cur, i), i)
       ELSE PopupCheckApproval(Cur, i)))

\* switchChainAsync returns or throws
PopupSwitchReturns(i, o) ==
  /\ mounted = "PayPopup"
  /\ tasks[i].pc = "P_switchChainAsync"
  /\ SwitchAnswers(Cur, o)
  /\ Commit(Flush(
       IF o = "ok" THEN PopupCheckApproval(switchChain(Cur, i), i)
       ELSE CatchPopup(Cur, i)))

\* checkTokenApprovalNeeded returns needsApproval true / false, or throws
PopupAllowanceReturns(i, o) ==
  /\ mounted = "PayPopup"
  /\ tasks[i].pc = "P_checkTokenApprovalNeeded"
  /\ AllowanceAnswers(Cur, o)
  /\ LET a == tasks[i].att IN
     Commit(Flush(
       CASE o = "needed" ->
              LET s1 == [Cur EXCEPT !.isApprovalStep = TRUE,
                                    !.attempts[a].plan = "approval"]
                  s2 == SendTransaction(s1, "approval", a, None)
              IN SetTask(s2, i, "P_sendTransactionAsync", s2.sendTx)
         [] o = "notNeeded" ->
              SetTask([Cur EXCEPT !.attempts[a].plan = "noapproval"],
                      i, "P_getSwapData", None)
         [] OTHER ->
              CatchPopupApproval([Cur EXCEPT !.attempts[a].allowanceFailed = TRUE], i)))

\* a variant of the receipt wait whose error ends the payment in the catch
\* block of executeBridgeTransaction
PopupApprovalWaitReturnsThrows(i, o) ==
  /\ mounted = "PayPopup"
  /\ tasks[i].pc = "P_waitForTransactionReceipt"
  /\ LET t == tasks[i].tx
         s1 == [Cur EXCEPT !.isApprovalStep = FALSE, !.txs[t].wait = o]
     IN /\ o = "receipt" => txs[t].st \in {"confirmed", "reverted"}
        /\ Commit(Flush(IF o = "receipt" THEN SetTask(s1, i, "P_getSwapData", None)
                        ELSE CatchPopup(s1, i)))

\* publicClient.waitForTransactionReceipt of the approval returns the receipt
\* (of a mined transaction, reverted or not) or throws; either way the flow
\* goes on to the bridge call
PopupApprovalWaitReturns(i, o) ==
  /\ mounted = "PayPopup"
  /\ tasks[i].pc = "P_waitForTransactionReceipt"
  /\ LET t == tasks[i].tx IN
     /\ o = "receipt" => txs[t].st \in {"confirmed", "reverted"}
     /\ Commit(Flush(SetTask([Cur EXCEPT !.isApprovalStep = FALSE,
                                         !.txs[t].wait = o],
                             i, "P_getSwapData", None)))

\* POST /api/getSwapData returns a usable transaction, or fails validation
PopupSwapDataReturns(i, o) ==
  /\ mounted = "PayPopup"
  /\ tasks[i].pc = "P_getSwapData"
  /\ SwapDataAnswers(Cur, o)
  /\ Commit(Flush(
       IF o = "ok" /\ PopupTransactionValid(env.transaction)
       THEN SetTask(Cur, i, "P_estimateGas", None)
       ELSE CatchPopup(Cur, i)))

\* estimateGas returns: the bridge transaction is handed to the wallet with
\* sendTransaction and executeBridgeTransaction returns
PopupGasReturns(i, o) ==
  /\ mounted = "PayPopup"
  /\ tasks[i].pc = "P_estimateGas"
  /\ Commit(Flush(
       IF o = "ok"
       THEN EndTask(SendTransaction(Cur, "settlement", tasks[i].att, None), i)
       ELSE CatchPopup(Cur, i)))


\* ---------------------------------------------------------------------- App
Reset3(s) ==
  [s EXCEPT !.payingRequestId = None,
            !.currentPayingRequest = None,
            !.paymentStep = "null"]

\* the Pay button of a listed request is enabled (the list shows PENDING requests)
PayRequestEnabled(r) ==
  /\ status[r] = "PENDING"
  /\ payingRequestId # r
  /\ denyingRequestId # r

\* the Deny button of a listed request is enabled
DenyEnabled(r) ==
  /\ status[r] = "PENDING"
  /\ payingRequestId # r
  /\ denyingRequestId # r

\* Deny: setDenyingRequestId(request.id), then await updateRequestStatus
DenyClick(r) ==
  /\ mounted \in {"AppA", "AppB"}
  /\ DenyEnabled(r)
  /\ Commit(Flush(Spawn([Cur EXCEPT !.denyingRequestId = r],
                        [pc |-> "Deny_updateRequestStatus", att |-> None,
                         req |-> r, pay |-> None, tx |-> None,
                         target |-> "none", wallet |-> "selected", quotes |-> 0,
                         token |-> "none", decimals |-> "none"])))

\* the PATCH of a Deny is answered; setDenyingRequestId(null)
DenyReturns(i, o) ==
  /\ mounted \in {"AppA", "AppB"}
  /\ tasks[i].pc = "Deny_updateRequestStatus"
  /\ LET s1 == IF o = "ok" THEN updateRequestStatus(Cur, tasks[i].req, "REJECTED")
               ELSE Cur
     IN Commit(Flush(EndTask([s1 EXCEPT !.denyingRequestId = None], i)))

\* --- AppA (App.tsx lines 58-858)
\* handlePayRequest up to `await checkTokenApprovalNeeded`; `pay` keeps the
\* currentPayingRequest of the render the click handler was created in, which
\* is what the handler's executePaymentTransaction closure reads
handlePayRequestA(r) ==
  /\ mounted = "AppA"
  /\ PayRequestEnabled(r)
  /\ LET s1 == NewAttempt(Cur, "request", r)
         s2 == [s1 EXCEPT !.payingRequestId = r, !.currentPayingRequest = r]
         s3 == Spawn(s2, [pc |-> "A_checkTokenApprovalNeeded",
                          att |-> s1.curAttempt, req |-> r,
                          pay |-> currentPayingRequest, tx |-> None,
                          target |-> "none", wallet |-> "selected", quotes |-> 0,
                          token |-> "none", decimals |-> "none"])
     IN Commit(Flush(s3))

\* checkTokenApprovalNeeded returns in handlePayRequest
AppAAllowanceReturns(i, o) ==
  /\ mounted = "AppA"
  /\ tasks[i].pc = "A_checkTokenApprovalNeeded"
  /\ AllowanceAnswers(Cur, o)
  /\ LET a == tasks[i].att
         r == tasks[i].req
     IN Commit(Flush(
       CASE o = "needed" ->
              \* setPaymentStep("approval"); executeApprovalForRequest -> sendTransaction
              EndTask(SendTransaction([Cur EXCEPT !.paymentStep = "approval",
                                                  !.attempts[a].plan = "approval"],
                                      "approval", a, r), i)
         [] o = "notNeeded" ->
              \* setPaymentStep("payment"); executePaymentTransaction()
              executePaymentTransactionA(
                EndTask([Cur EXCEPT !.paymentStep = "payment",
                                    !.attempts[a].plan = "noapproval"], i),
                a, tasks[i].pay)
         [] OTHER ->
              \* catch: setPayingRequestId(null); setCurrentPayingRequest(null)
              MarkFailed(EndTask([Cur EXCEPT !.payingRequestId = None,
                                             !.currentPayingRequest = None,
                                             !.attempts[a].allowanceFailed = TRUE], i), a)))

\* executePaymentTransaction: /api/getSwapData answers
AppASwapDataReturns(i, o) ==
  /\ mounted = "AppA"
  /\ tasks[i].pc = "A_getSwapData"
  /\ SwapDataAnswers(Cur, o)
  /\ Commit(Flush(
       IF o = "ok" /\ TransactionPresent(env.transaction)
       THEN EndTask(SendTransaction(Cur, "settlement", tasks[i].att, tasks[i].pay), i)
       ELSE MarkFailed(EndTask(Reset3(Cur), i), tasks[i].att)))

\* --- AppB (App.tsx lines 921-2076)
\* handlePayRequest up to its `await fetch("/api/getSwapData")`
handlePayRequestB(r) ==
  /\ mounted = "AppB"
  /\ PayRequestEnabled(r)
  /\ LET s1 == NewAttempt(Cur, "request", r)
         s2 == [s1 EXCEPT !.payingRequestId = r, !.currentPayingRequest = r]
         s3 == Spawn(s2, [pc |-> "B_getSwapData", att |-> s1.curAttempt,
                          req |-> r, pay |-> r, tx |-> None,
                          target |-> "none", wallet |-> "selected", quotes |-> 0,
                          token |-> "none", decimals |-> "none"])
     IN Commit(Flush(s3))

\* the catch block of handlePayRequest / executePaymentTransaction
CatchB(s, i) == MarkFailed(EndTask(Reset3(s), i), s.tasks[i].att)

\* executePaymentTransaction(request, overrides) up to its fetch
executePaymentTransactionB(s, i) ==
  SetTask([s EXCEPT !.paymentStep = "payment"], i, "B_ept_getSwapData", None)

\* the catch block of executeApprovalForRequest: the state is reset, the error
\* is not rethrown, and handlePayRequest goes on with step 5
CatchApprovalB(s, i) ==
  executePaymentTransactionB(MarkFailed(Reset3(s), s.tasks[i].att), i)

\* setPaymentStep("approval"); executeApprovalForRequest up to sendTransactionAsync.
\* reg: the quoted token is registered on the quoted chain with a gateway
\* contract ("found") or not ("missing")
executeApprovalForRequest(s, i, reg) ==
  LET a == s.tasks[i].att
      s1 == [s EXCEPT !.paymentStep = "approval", !.attempts[a].plan = "approval",
                      !.tasks[i].token = tokenSymbol(s),
                      !.tasks[i].decimals = tokenDecimals(s)]
  IN IF reg = "found"
     THEN LET s2 == SendTransaction(s1, "approval", a, s.tasks[i].req)
          IN SetTask(s2, i, "B_approval_sendTransactionAsync", s2.sendTx)
     ELSE CatchApprovalB(s1, i)

\* the first /api/getSwapData of handlePayRequest answers
AppBSwapDataReturns(i, o) ==
  /\ mounted = "AppB"
  /\ tasks[i].pc = "B_getSwapData"
  /\ SwapDataAnswers(Cur, o)
  /\ LET a == tasks[i].att IN
     Commit(Flush(
       CASE o # "fail" /\ ~TransactionPresent(env.transaction) -> CatchB(Cur, i)
         [] o = "direct" ->
              LET s1 == SendTransaction([Cur EXCEPT !.paymentStep = "payment",
                                                    !.attempts[a].plan = "direct"],
                                        "settlement", a, tasks[i].req)
              IN SetTask(s1, i, "B_direct_sendTransactionAsync", s1.sendTx)
         [] o = "bridge" -> SetTask([Cur EXCEPT !.tasks[i].quotes = @ + 1],
                                    i, "B_fetchPaymentQuote", None)
         [] OTHER -> CatchB(Cur, i)))

AppBQuoteReturns(i, o, reg) ==
  /\ mounted = "AppB"
  /\ tasks[i].pc = "B_fetchPaymentQuote"
  /\ QuoteAnswers(Cur, o)
  /\ LET s1 == [Cur EXCEPT !.tasks[i].target = targetChainId(o)] IN
     Commit(Flush(
       CASE o = "same" -> executeApprovalForRequest(s1, i, reg)
         [] o = "other" -> SetTask(s1, i, "B_switchChainAsync", None)
         [] OTHER -> CatchB(Cur, i)))

AppBSwitchReturns(i, o, reg) ==
  /\ mounted = "AppB"
  /\ tasks[i].pc = "B_switchChainAsync"
  /\ SwitchAnswers(Cur, o)
  /\ Commit(Flush(
       IF o = "ok" THEN executeApprovalForRequest(switchChain(Cur, i), i, reg)
       ELSE CatchB(Cur, i)))

\* publicClient.waitForTransactionReceipt of the approval returns or throws
\* ("waitForTransactionReceipt failed, proceeding")
AppBApprovalWaitReturns(i, o) ==
  /\ mounted = "AppB"
  /\ tasks[i].pc = "B_waitForTransactionReceipt"
  /\ LET t == tasks[i].tx IN
     /\ o = "receipt" => txs[t].st \in {"confirmed", "reverted"}
     /\ Commit(Flush(executePaymentTransactionB([Cur EXCEPT !.txs[t].wait = o], i)))

\* executePaymentTransaction: /api/getSwapData answers
AppBPaymentSwapDataReturns(i, o) ==
  /\ mounted = "AppB"
  /\ tasks[i].pc = "B_ept_getSwapData"
  /\ SwapDataAnswers(Cur, o)
  /\ Commit(Flush(
       IF o = "ok" /\ TransactionPresent(env.transaction)
       THEN LET s1 == SendTransaction(Cur, "settlement", tasks[i].att, tasks[i].pay)
            IN SetTask(s1, i, "B_bridge_sendTransactionAsync", s1.sendTx)
       ELSE CatchB(Cur, i)))

\* --------------------------------------------------------- wallet and chain
AwaitingSignature == {"P_sendTransactionAsync", "B_direct_sendTransactionAsync",
                      "B_approval_sendTransactionAsync", "B_bridge_sendTransactionAsync"}

Awaiters(s, t) == {i \in TaskIds : s.tasks[i].tx = t /\ s.tasks[i].pc \in AwaitingSignature}

\* sendTransactionAsync resolves with the hash: the awaiting function goes on
OnSigned(s, t) ==
  IF Awaiters(s, t) = {} THEN s
  ELSE LET i == Min(Awaiters(s, t))
           pc == s.tasks[i].pc
       IN CASE pc = "P_sendTransactionAsync" -> SetTask(s, i, "P_waitForTransactionReceipt", t)
            [] pc = "B_approval_sendTransactionAsync" -> SetTask(s, i, "B_waitForTransactionReceipt", t)
            [] OTHER -> EndTask(s, i)

\* sendTransactionAsync rejects: the awaiting function's catch block runs
OnRejected(s, t) ==
  IF Awaiters(s, t) = {} THEN s
  ELSE LET i == Min(Awaiters(s, t))
           pc == s.tasks[i].pc
       IN CASE pc = "P_sendTransactionAsync" -> CatchPopupApproval(s, i)
            [] pc = "B_approval_sendTransactionAsync" -> CatchApprovalB(s, i)
            [] OTHER -> CatchB(s, i)

\* the payer signs in the wallet: the transaction is broadcast
WalletSign(t) ==
  /\ txs[t].st = "prompt"
  /\ Commit(Flush(OnSigned([Cur EXCEPT !.txs[t].st = "sent"], t)))

\* the payer rejects the signature prompt (or the wallet fails)
WalletReject(t) ==
  /\ txs[t].st = "prompt"
  /\ LET s1 == OnRejected([Cur EXCEPT !.txs[t].st = "rejected"], t)
         s2 == IF mounted = "PayPopup" /\ t = sendTx
               THEN PopupTransactionErrorEffect(s1) ELSE s1
     IN Commit(Flush(s2))

\* the transaction is mined successfully
ChainConfirm(t) ==
  /\ txs[t].st = "sent"
  /\ Commit([Cur EXCEPT !.txs[t].st = "confirmed"])

\* the transaction reverts on chain
ChainRevert(t) ==
  /\ txs[t].st = "sent"
  /\ Commit([Cur EXCEPT !.txs[t].st = "reverted"])

\* useWaitForTransactionReceipt obtains the receipt of the hook's hash
ObserveReceipt ==
  /\ sendTx # None
  /\ txs[sendTx].st = "confirmed"
  /\ ~isTransactionConfirmed
  /\ Commit(Flush([Cur EXCEPT !.isTransactionConfirmed = TRUE]))

\* ---------------------------------------------------------------------- Api
\* a client calls PATCH /api/fund-requests/[id]
ApiPatchById(r, ns) ==
  /\ mounted = "Api"
  /\ status' = PATCH_id(status, r, ns)
  /\ UNCHANGED << mounted, paymentStep, currentPayingRequest, payingRequestId,
                  denyingRequestId, lastProcessedHashRef, showPayPopup,
                  selectedRecipient, amount, isProcessing, isBridgeStep,
                  isApprovalStep, error, processedTransactions, sendTx,
                  isTransactionConfirmed, txs, tasks, attempts, curAttempt,
                  completions, events, env, serverVars >>

\* a client calls PATCH /api/fund-requests/[fid] as user f
ApiPatchByFid(f, r, ns) ==
  /\ mounted = "Api"
  /\ status' = PATCH_fid(status, f, r, ns)
  /\ UNCHANGED << mounted, paymentStep, currentPayingRequest, payingRequestId,
                  denyingRequestId, lastProcessedHashRef, showPayPopup,
                  selectedRecipient, amount, isProcessing, isBridgeStep,
                  isApprovalStep, error, processedTransactions, sendTx,
                  isTransactionConfirmed, txs, tasks, attempts, curAttempt,
                  completions, events, env, serverVars >>

\* --------------------------------------------------------------------- Next

Next ==
  \/ OpenPayPopup
  \/ SelectRecipient
  \/ EnterAmount
  \/ handleClose
  \/ handlePay
  \/ \E i \in TaskIds, o \in QuoteOutcomes : PopupQuoteReturns(i, o)
  \/ \E i \in TaskIds, o \in CallOutcomes : PopupSwitchReturns(i, o)
  \/ \E i \in TaskIds, o \in AllowanceOutcomes : PopupAllowanceReturns(i, o)
  \/ \E i \in TaskIds, o \in WaitOutcomes : PopupApprovalWaitReturns(i, o)
  \/ \E i \in TaskIds, o \in CallOutcomes : PopupSwapDataReturns(i, o)
  \/ \E i \in TaskIds, o \in CallOutcomes : PopupGasReturns(i, o)
  \/ \E r \in RequestIds : DenyClick(r)
  \/ \E i \in TaskIds, o \in CallOutcomes : DenyReturns(i, o)
  \/ \E r \in RequestIds : handlePayRequestA(r)
  \/ \E i \in TaskIds, o \in AllowanceOutcomes : AppAAllowanceReturns(i, o)
  \/ \E i \in TaskIds, o \in CallOutcomes : AppASwapDataReturns(i, o)
  \/ \E r \in RequestIds : handlePayRequestB(r)
  \/ \E i \in TaskIds, o \in SwapOutcomes : AppBSwapDataReturns(i, o)
  \/ \E i \in TaskIds, o \in QuoteOutcomes, reg \in RegistryOutcomes : AppBQuoteReturns(i, o, reg)
  \/ \E i \in TaskIds, o \in CallOutcomes, reg \in RegistryOutcomes : AppBSwitchReturns(i, o, reg)
  \/ \E i \in TaskIds, o \in WaitOutcomes : AppBApprovalWaitReturns(i, o)
  \/ \E i \in TaskIds, o \in CallOutcomes : AppBPaymentSwapDataReturns(i, o)
  \/ \E t \in TxIds : WalletSign(t)
  \/ \E t \in TxIds : WalletReject(t)
  \/ \E t \in TxIds : ChainConfirm(t)
  \/ \E t \in TxIds : ChainRevert(t)
  \/ ObserveReceipt
  \/ \E r \in RequestIds, ns \in PatchInputs : ApiPatchById(r, ns)
  \/ \E f \in UserIds, r \in RequestIds, ns \in PatchInputs : ApiPatchByFid(f, r, ns)

Spec == Init /\ [][Next]_vars

\* MaxFlowAttempts payment attempts per behaviour, in a fixed environment
SpecFlow == InitFlow /\ [][Next]_vars

\* what happens without the payer: a pending call returns, a broadcast
\* transaction is mined, the receipt hook delivers a receipt it can deliver
Responses ==
  \/ \E i \in TaskIds, o \in QuoteOutcomes : PopupQuoteReturns(i, o)
  \/ \E i \in TaskIds, o \in CallOutcomes : PopupSwitchReturns(i, o)
  \/ \E i \in TaskIds, o \in AllowanceOutcomes : PopupAllowanceReturns(i, o)
  \/ \E i \in TaskIds, o \in WaitOutcomes : PopupApprovalWaitReturns(i, o)
  \/ \E i \in TaskIds, o \in CallOutcomes : PopupSwapDataReturns(i, o)
  \/ \E i \in TaskIds, o \in CallOutcomes : PopupGasReturns(i, o)
  \/ \E i \in TaskIds, o \in CallOutcomes : DenyReturns(i, o)
  \/ \E i \in TaskIds, o \in AllowanceOutcomes : AppAAllowanceReturns(i, o)
  \/ \E i \in TaskIds, o \in CallOutcomes : AppASwapDataReturns(i, o)
  \/ \E i \in TaskIds, o \in SwapOutcomes : AppBSwapDataReturns(i, o)
  \/ \E i \in TaskIds, o \in QuoteOutcomes, reg \in RegistryOutcomes : AppBQuoteReturns(i, o, reg)
  \/ \E i \in TaskIds, o \in CallOutcomes, reg \in RegistryOutcomes : AppBSwitchReturns(i, o, reg)
  \/ \E i \in TaskIds, o \in WaitOutcomes : AppBApprovalWaitReturns(i, o)
  \/ \E i \in TaskIds, o \in CallOutcomes : AppBPaymentSwapDataReturns(i, o)

Mined == \E t \in TxIds : ChainConfirm(t) \/ ChainRevert(t)

\* one attempt in an environment that fixes nothing
InitLive == InitState /\ env = EnvFlow /\ ServerIdle

\* one attempt with the scheduling the runtime gives: promises settle, blocks
\* are produced, the receipt hook polls.  Nothing is assumed about the payer.
SpecLive ==
  /\ InitLive
  /\ [][Next]_vars
  /\ WF_vars(Responses)
  /\ WF_vars(Mined)
  /\ WF_vars(ObserveReceipt)


\* ------------------------------------------------------------ server routes
\* The routes as functions of the tables db = [users, fundRequests]; a request
\* that is answered with an error leaves db as the route left it by then.
Tables == [users |-> users, fundRequests |-> fundRequests]

\* POST /api/users
POST_users(db, fid, o) ==
  IF db.users[fid].exists THEN db
  ELSE [db EXCEPT !.users = createUser(db.users, fid, primaryEth(o))]

\* PUT /api/users/preferences
PUT_preferences(db, userId, preferredChainId, preferredTokenSymbol, preferredAddress) ==
  IF preferredChainId \notin DOMAIN CHAIN_ID_TO_ENUM THEN db
  ELSE IF preferredTokenSymbol \notin DOMAIN TOKEN_SYMBOL_TO_ENUM THEN db
  ELSE IF ~db.users[userId].exists THEN db
  ELSE [db EXCEPT !.users[userId] =
          [exists |-> TRUE,
           preferredChain |-> CHAIN_ID_TO_ENUM[preferredChainId],
           preferredToken |-> TOKEN_SYMBOL_TO_ENUM[preferredTokenSymbol],
           preferredAddress |-> preferredAddress]]

\* POST /api/fund-requests: the receiver is looked up, the amount validated,
\* the row created (the creation fails if senderId is no user's id)
POST_fund_requests(db, senderId, receiverUsername, amountText, expiresAt) ==
  IF Len(amountText) = 0 THEN db
  ELSE IF ~db.users[receiverUsername].exists THEN db
  ELSE LET parsedAmount == parseFloat(amountText) IN
       IF isNaN(parsedAmount) \/ AtMostZero(parsedAmount) THEN db
       ELSE IF ~db.users[senderId].exists THEN db
       ELSE [db EXCEPT !.fundRequests =
               createFundRequest(db.fundRequests, senderId, receiverUsername,
                                 parsedAmount, expiresAt)]

\* POST /api/fund-requests/add: both users are looked up by fid
POST_fund_requests_add(db, senderFid, receiverFid, amountText, expiresAt) ==
  IF Len(amountText) = 0 THEN db
  ELSE IF ~db.users[senderFid].exists THEN db
  ELSE IF ~db.users[receiverFid].exists THEN db
  ELSE LET parsedAmount == parseFloat(amountText) IN
       IF isNaN(parsedAmount) \/ AtMostZero(parsedAmount) THEN db
       ELSE [db EXCEPT !.fundRequests =
               createFundRequest(db.fundRequests, senderFid, receiverFid,
                                 parsedAmount, expiresAt)]

\* the creation route that finds or creates both users first
POST_fund_requests_findOrCreate(db, senderFid, receiverFid, amountText, expiresAt, oS, oR) ==
  IF Len(amountText) = 0 THEN db
  ELSE LET us == findOrCreateUser(findOrCreateUser(db.users, senderFid, oS),
                                  receiverFid, oR)
           db1 == [db EXCEPT !.users = us]
           parsedAmount == parseFloat(amountText)
       IN IF ~us[senderFid].exists THEN db1
          ELSE IF ~us[receiverFid].exists THEN db1
          ELSE IF isNaN(parsedAmount) \/ AtMostZero(parsedAmount) THEN db1
          ELSE [db1 EXCEPT !.fundRequests =
                  createFundRequest(db.fundRequests, senderFid, receiverFid,
                                    parsedAmount, expiresAt)]

\* PATCH /api/fund-requests/[fid] on the table: the actor and the request must
\* exist, the actor be the sender or the receiver of the request
PATCH_fund_requests_fid(db, fid, requestId, newStatus) ==
  IF newStatus \notin validStatuses THEN db
  ELSE IF ~db.users[fid].exists THEN db
  ELSE IF ~db.fundRequests[requestId].exists THEN db
  ELSE IF /\ db.fundRequests[requestId].receiverId # fid
          /\ db.fundRequests[requestId].senderId # fid THEN db
  ELSE [db EXCEPT !.fundRequests[requestId].status = newStatus]

\* PATCH /api/fund-requests/[id] on the table
PATCH_fund_requests_id(db, requestId, newStatus) ==
  IF newStatus \notin validStatuses THEN db
  ELSE IF ~db.fundRequests[requestId].exists THEN db
  ELSE [db EXCEPT !.fundRequests[requestId].status = newStatus]

\* the server answers one request: the tables become db
Answer(db) ==
  /\ users' = db.users
  /\ fundRequests' = db.fundRequests
  /\ UNCHANGED << now, call, result, clientVars >>

Tick ==
  /\ now < MaxTime
  /\ now' = now + 1
  /\ UNCHANGED << users, fundRequests, call, result, clientVars >>

CreateUser(fid, o) ==
  /\ mounted = "Api"
  /\ Answer(POST_users(Tables, fid, o))

PutPreferences(userId, c, x, a) ==
  /\ mounted = "Api"
  /\ Answer(PUT_preferences(Tables, userId, c, x, a))

CreateFundRequest(s, r, a, e) ==
  /\ FreeRequestIds(fundRequests) # {}
  /\ Answer(POST_fund_requests(Tables, s, r, a, e))

AddFundRequest(s, r, a, e) ==
  /\ FreeRequestIds(fundRequests) # {}
  /\ Answer(POST_fund_requests_add(Tables, s, r, a, e))

FindOrCreateFundRequest(s, r, a, e, oS, oR) ==
  /\ FreeRequestIds(fundRequests) # {}
  /\ Answer(POST_fund_requests_findOrCreate(Tables, s, r, a, e, oS, oR))

PatchByFid(f, r, ns) ==
  /\ mounted = "Api"
  /\ Answer(PATCH_fund_requests_fid(Tables, f, r, ns))

PatchById(r, ns) ==
  /\ mounted = "Api"
  /\ Answer(PATCH_fund_requests_id(Tables, r, ns))

NextStore ==
  \/ Tick
  \/ \E f \in StoreFids, o \in NeynarOutcomes : CreateUser(f, o)
  \/ \E f \in StoreFids, c \in PreferenceChainIds, x \in PreferenceSymbols,
        a \in PreferenceAddresses : PutPreferences(f, c, x, a)
  \/ \E s, r \in StoreFids, a \in AmountTexts, e \in ExpiresAtInputs :
        CreateFundRequest(s, r, a, e)
  \/ \E s, r \in StoreFids, a \in AmountTexts, e \in ExpiresAtInputs :
        AddFundRequest(s, r, a, e)
  \/ \E s, r \in StoreFids, a \in AmountTexts, e \in ExpiresAtInputs,
        oS, oR \in NeynarOutcomes : FindOrCreateFundRequest(s, r, a, e, oS, oR)
  \/ \E f \in StoreFids, r \in StoreRequestIds, ns \in PatchInputs : PatchByFid(f, r, ns)
  \/ \E r \in StoreRequestIds, ns \in PatchInputs : PatchById(r, ns)

\* the server alone, from empty tables
InitStore ==
  /\ InitState /\ mounted = "Api" /\ env = EnvAny
  /\ ServerIdle

SpecStore == InitStore /\ [][NextStore]_vars


\* ------------------------------------------------------ POST /api/getSwapData
\* a 42-character "0x" address that holds "..."
ElidedAddress == [prefix0x |-> TRUE, len |-> 42, ellipsis |-> TRUE]

\* the user rows prisma may hold for the receiver (NoUser: no such fid)
ReceiverRows ==
  {NoUser} \cup
  [exists : {TRUE}, preferredChain : {"BASE", "MOVEMENT", "SOLANA"},
   preferredToken : {"USDC", "SOL"},
   preferredAddress : PreferenceAddresses \cup {ElidedAddress}]

\* the bodies of the simplified request, with the row of the receiver
SwapDataCalls ==
  [fn : {"getSwapData"}, receiver : ReceiverRows, amount : AmountTexts,
   sourceChainId : {8453, 999}, sourceTokenSymbol : {"USDC", "DOGE"}]

\* `destinationAddress.includes("...")`
includesEllipsisNever(destinationAddress) == FALSE
includesEllipsis(destinationAddress) == destinationAddress.ellipsis

\* `destinationChainId === 1329`
isSolanaDestinationNever(destinationChainId) == FALSE
isSolanaDestination(destinationChainId) == destinationChainId = 1329

\* the answer of the route: its HTTP status, whether sdk.bridge was called and
\* with which amount (parseFloat(amount), to be scaled by the token's decimals)
Rejected(httpStatus) ==
  [done |-> TRUE, status |-> httpStatus, providerCalled |-> FALSE, parsedAmount |-> NaN]

\* POST -> handleSimplifiedBridgeRequest (the API key is configured, the
\* provider answers)
handleSimplifiedBridgeRequest(data) ==
  LET receiver == data.receiver
      destinationChainId == CHAIN_ENUM_TO_ID[receiver.preferredChain]
      destinationTokenSymbol == TOKEN_ENUM_TO_SYMBOL[receiver.preferredToken]
      destinationAddress == receiver.preferredAddress
      isEthAddress == destinationAddress.prefix0x /\ destinationAddress.len = 42
      isSolanaAddress == ~destinationAddress.prefix0x /\ destinationAddress.len = 44
  IN IF Len(data.amount) < 1 THEN Rejected(400)
     ELSE IF ~receiver.exists THEN Rejected(404)
     ELSE IF receiver.preferredAddress.len = 0 THEN Rejected(400)
     ELSE IF includesEllipsis(destinationAddress) THEN Rejected(400)
     ELSE IF isSolanaDestination(destinationChainId) /\ ~isSolanaAddress
       THEN Rejected(400)
     ELSE IF ~isSolanaDestination(destinationChainId) /\ ~isEthAddress
       THEN Rejected(400)
     ELSE IF data.sourceChainId \notin DOMAIN SUPPORTED_CHAINS THEN Rejected(400)
     ELSE IF destinationChainId \notin DOMAIN SUPPORTED_CHAINS THEN Rejected(400)
     ELSE IF getTokenInfo(data.sourceChainId, data.sourceTokenSymbol) = undefined
       THEN Rejected(400)
     ELSE IF getTokenInfo(destinationChainId, destinationTokenSymbol) = undefined
       THEN Rejected(400)
     ELSE [done |-> TRUE, status |-> 200, providerCalled |-> TRUE,
           parsedAmount |-> parseFloat(data.amount)]

\* --------------------------------------------------- Number (IEEE 754 double)
\* A natural number of any size is the sequence of its digits in base 2^15,
\* the least significant first, without leading zeros (0 is << >>).
Base == 2^15
MantissaBits == 53

RECURSIVE Normalize(_)
Normalize(a) ==
  IF a = << >> THEN a
  ELSE IF a[Len(a)] = 0 THEN Normalize(SubSeq(a, 1, Len(a) - 1))
  ELSE a

RECURSIVE BigOf(_)
BigOf(n) == IF n = 0 THEN << >> ELSE <<n % Base>> \o BigOf(n \div Base)

\* a * c + carry, for c <= Base
RECURSIVE MulAdd(_, _, _)
MulAdd(a, c, carry) ==
  IF a = << >> THEN BigOf(carry)
  ELSE LET v == a[1] * c + carry
       IN <<v % Base>> \o MulAdd(Tail(a), c, v \div Base)

\* a * 10^k, four decimal digits at a time
RECURSIVE MulPow10(_, _)
MulPow10(a, k) ==
  IF k <= 4 THEN MulAdd(a, Pow10(k), 0)
  ELSE MulPow10(MulAdd(a, Pow10(4), 0), k - 4)

\* quotient (with leading zeros) and remainder of a by c, for c <= Base
RECURSIVE DivRem(_, _)
DivRem(a, c) ==
  IF a = << >> THEN [q |-> << >>, r |-> 0]
  ELSE LET hi == DivRem(Tail(a), c)
           v == hi.r * Base + a[1]
       IN [q |-> <<v \div c>> \o hi.q, r |-> v % c]

\* floor(a / 10^k), and whether anything was cut off; four decimal digits at
\* a time
RECURSIVE DivPow10(_, _)
DivPow10(a, k) ==
  LET d == DivRem(a, Pow10(IF k <= 4 THEN k ELSE 4))
  IN IF k <= 4 THEN [q |-> Normalize(d.q), sticky |-> d.r # 0]
     ELSE LET rest == DivPow10(Normalize(d.q), k - 4)
          IN [q |-> rest.q, sticky |-> rest.sticky \/ d.r # 0]

RECURSIVE BitLenSmall(_)
BitLenSmall(n) == IF n = 0 THEN 0 ELSE 1 + BitLenSmall(n \div 2)
BitLen(a) == IF a = << >> THEN 0 ELSE 15 * (Len(a) - 1) + BitLenSmall(a[Len(a)])

\* floor(a / 2^r), and whether anything was cut off
ShiftRight(a, r) ==
  LET limbs == r \div 15
      rest == IF limbs >= Len(a) THEN << >> ELSE SubSeq(a, limbs + 1, Len(a))
      d == DivRem(rest, 2^(r % 15))
  IN [q |-> Normalize(d.q),
      sticky |-> d.r # 0 \/ \E i \in 1..Len(a) : i <= limbs /\ a[i] # 0]

\* a * 2^e
ShiftLeft(a, e) ==
  IF a = << >> THEN a
  ELSE [i \in 1..(e \div 15) |-> 0] \o MulAdd(a, 2^(e % 15), 0)

Less(a, b) ==
  \/ Len(a) < Len(b)
  \/ /\ Len(a) = Len(b)
     /\ \E i \in 1..Len(a) :
          /\ a[i] < b[i]
          /\ \A j \in (i + 1)..Len(a) : a[j] = b[j]

\* a double is m * 2^e with m < 2^53.  The double nearest to a + f (f < 1,
\* f > 0 iff sticky), ties to even: round-to-nearest-even, the rounding of
\* every operation on a Number.
RoundToNearest(a, sticky) ==
  IF BitLen(a) <= MantissaBits THEN [m |-> a, e |-> 0]
  ELSE LET r == BitLen(a) - MantissaBits
           s1 == ShiftRight(a, r - 1)
           guard == s1.q[1] % 2
           q == Normalize(DivRem(s1.q, 2).q)
           odd == q # << >> /\ q[1] % 2 = 1
           up == guard = 1 /\ (s1.sticky \/ sticky \/ odd)
       IN [m |-> IF up THEN MulAdd(q, 1, 1) ELSE q, e |-> r]

\* the Number parseFloat returns for the positive decimal digits / 10^scale
\* (6 digits of base 2^15 are appended before the division, so that the
\* quotient has more than 53 bits)
toNumber(x) ==
  LET scaled == DivPow10([i \in 1..6 |-> 0] \o BigOf(x.digits), x.scale)
      rounded == RoundToNearest(scaled.q, scaled.sticky)
  IN [m |-> rounded.m, e |-> rounded.e - 90]

\* x * Math.pow(10, decimals): 10^decimals is a Number exactly (decimals <= 22)
timesPow10(x, decimals) ==
  LET rounded == RoundToNearest(MulPow10(x.m, decimals), FALSE)
  IN [m |-> rounded.m, e |-> x.e + rounded.e]

\* BigInt(Math.floor(x))
BigIntFloor(x) ==
  IF x.e >= 0 THEN ShiftLeft(x.m, x.e) ELSE ShiftRight(x.m, 0 - x.e).q

\* ------------------------------------------------- checkTokenApprovalNeeded
getGatewayAddress(chainId) == SUPPORTED_CHAINS[chainId].gatewayContract

\* `gatewayAddress === "Native Integration"`
isNativeIntegrationNever(gatewayAddress) == FALSE
isNativeIntegration(gatewayAddress) == gatewayAddress = "Native Integration"

\* `isNaN(parsedAmount) || parsedAmount <= 0`
isDegenerateNever(parsedAmount) == FALSE
isDegenerate(parsedAmount) == isNaN(parsedAmount) \/ AtMostZero(parsedAmount)

\* Math.floor(parsedAmount * Math.pow(10, decimals)) as a BigInt
requiredAmountOf(parsedAmount, decimals) ==
  BigIntFloor(timesPow10(toNumber(parsedAmount), decimals))

Threw == [done |-> TRUE, threw |-> TRUE, needsApproval |-> FALSE,
          currentAllowance |-> << >>, requiredAmount |-> << >>,
          allowanceRead |-> FALSE]
NoApprovalNeeded == [Threw EXCEPT !.threw = FALSE]

\* allowance: what the allowance read returns, or that it throws
checkTokenApprovalNeeded(chainId, symbol, amountText, allowance) ==
  LET tokenInfo == getTokenInfo(chainId, symbol)
      parsedAmount == parseFloat(amountText)
      requiredAmount == requiredAmountOf(parsedAmount, tokenInfo.decimals)
  IN IF tokenInfo = undefined THEN Threw
     ELSE IF isNativeIntegration(getGatewayAddress(chainId)) THEN NoApprovalNeeded
     ELSE IF isDegenerate(parsedAmount) THEN NoApprovalNeeded
     ELSE IF allowance.throws THEN [Threw EXCEPT !.allowanceRead = TRUE]
     ELSE [done |-> TRUE, threw |-> FALSE,
           needsApproval |-> Less(allowance.value, requiredAmount),
           currentAllowance |-> allowance.value, requiredAmount |-> requiredAmount,
           allowanceRead |-> TRUE]

\* the amounts typed by a payer: AmountTexts and the positive decimals
\* "1.0000005", "4.1", "0.1", "1.1", "5", "2363", "0.000001", "64.6"
TypedAmounts ==
  AmountTexts \cup
  { <<"1", ".", "0", "0", "0", "0", "0", "0", "5">>,
    <<"4", ".", "1">>,
    <<"0", ".", "1">>,
    <<"1", ".", "1">>,
    <<"5">>,
    <<"2", "3", "6", "3">>,
    <<"0", ".", "0", "0", "0", "0", "0", "1">>,
    <<"6", "4", ".", "6">> }

\* what the allowance read answers: nothing approved, 4100000 units, an
\* unlimited approval, or the read fails
AllowanceReads ==
  [throws : {FALSE}, value : { << >>, BigOf(4100000), [i \in 1..12 |-> Base - 1] }]
    \cup {[throws |-> TRUE, value |-> << >>]}

ApprovalCheckCalls ==
  [fn : {"checkTokenApprovalNeeded"}, chainId : {8453, 56, 30732, 1329, 999},
   tokenSymbol : {"USDC", "BSC-USD", "DOGE"}, amount : TypedAmounts,
   allowance : AllowanceReads]

\* PayPopup, executeBridgeTransaction step 2: whether the approve transaction
\* is handed to the wallet (a throw of the check is caught, the flow goes on)
popupSubmitsApproval(chainId, symbol, amountText, allowance) ==
  LET approvalCheck == checkTokenApprovalNeeded(chainId, symbol, amountText, allowance)
  IN /\ ~approvalCheck.threw
     /\ approvalCheck.needsApproval
     /\ getTokenInfo(chainId, symbol) # undefined
     /\ ~isNativeIntegration(getGatewayAddress(chainId))

\* App, executeApprovalForRequest: whether the approve transaction is handed
\* to the wallet (it throws before that if the token is not registered or the
\* gateway is the native integration)
appSubmitsApproval(chainToUse, symbol) ==
  /\ getTokenInfo(chainToUse, symbol) # undefined
  /\ ~isNativeIntegration(getGatewayAddress(chainToUse))

PopupApprovalCalls ==
  [fn : {"popupApproval"}, chainId : {8453, 1329}, tokenSymbol : {"USDC", "DOGE"},
   amount : TypedAmounts, allowance : AllowanceReads]

AppApprovalCalls ==
  [fn : {"executeApprovalForRequest"}, chainId : {8453, 56, 1329, 999},
   tokenSymbol : {"USDC", "BSC-USD", "DOGE"}]

\* ------------------------------------------------------------ single calls
\* the lookups of the registry, by registered and unregistered keys
RegistryCalls ==
  [fn : {"getTokenInfo"}, chainId : {8453, 56, 30732, 1329, 999},
   tokenSymbol : {"USDC", "USDT", "BSC-USD", "DOGE"}]
  \cup [fn : {"getTokensForChain"}, chainId : {8453, 56, 30732, 1329, 999}]

Calls == SwapDataCalls \cup ApprovalCheckCalls \cup PopupApprovalCalls
           \cup AppApprovalCalls \cup RegistryCalls

InitCalc ==
  /\ InitState /\ mounted = "Api" /\ env = EnvAny
  /\ now = 0
  /\ users = [f \in StoreFids |-> NoUser]
  /\ fundRequests = [r \in StoreRequestIds |-> NoRequest]
  /\ call \in Calls
  /\ result = NoResult

GetSwapData ==
  /\ call.fn = "getSwapData"
  /\ ~result.done
  /\ result' = handleSimplifiedBridgeRequest(call)
  /\ UNCHANGED << now, users, fundRequests, call, clientVars >>

CheckTokenApprovalNeeded ==
  /\ call.fn = "checkTokenApprovalNeeded"
  /\ ~result.done
  /\ result' = checkTokenApprovalNeeded(call.chainId, call.tokenSymbol,
                                        call.amount, call.allowance)
  /\ UNCHANGED << now, users, fundRequests, call, clientVars >>

PopupApprovalStep ==
  /\ call.fn = "popupApproval"
  /\ ~result.done
  /\ result' = [done |-> TRUE,
                submitted |-> popupSubmitsApproval(call.chainId, call.tokenSymbol,
                                                   call.amount, call.allowance)]
  /\ UNCHANGED << now, users, fundRequests, call, clientVars >>

ExecuteApprovalForRequest ==
  /\ call.fn = "executeApprovalForRequest"
  /\ ~result.done
  /\ result' = [done |-> TRUE,
                submitted |-> appSubmitsApproval(call.chainId, call.tokenSymbol)]
  /\ UNCHANGED << now, users, fundRequests, call, clientVars >>

\* neither lookup has a statement that can throw: the entry of the network is
\* tested before its tokens are read
GetTokenInfo ==
  /\ call.fn = "getTokenInfo"
  /\ ~result.done
  /\ result' = [done |-> TRUE, threw |-> FALSE,
                value |-> getTokenInfo(call.chainId, call.tokenSymbol)]
  /\ UNCHANGED << now, users, fundRequests, call, clientVars >>

GetTokensForChain ==
  /\ call.fn = "getTokensForChain"
  /\ ~result.done
  /\ result' = [done |-> TRUE, threw |-> FALSE,
                value |-> getTokensForChain(call.chainId)]
  /\ UNCHANGED << now, users, fundRequests, call, clientVars >>

NextCalc ==
  \/ GetSwapData
  \/ CheckTokenApprovalNeeded
  \/ PopupApprovalStep
  \/ ExecuteApprovalForRequest
  \/ GetTokenInfo
  \/ GetTokensForChain

\* one call of one function, its arguments drawn from Calls
SpecCalc == InitCalc /\ [][NextCalc]_vars


\* ------------------------------------------------- who updates a status
\* the users of the store and one caller more
Actors == 1..(MaxStoreUsers + 1)

\* the tables after users were created and requests were made and answered:
\* a request's sender and receiver are rows of the user table
PatchTables ==
  {db \in [users : [Actors -> {NoUser, createUser([f \in Actors |-> NoUser], 1,
                                                  ValidEvmAddress)[1]}],
           fundRequests :
             [StoreRequestIds ->
                {NoRequest} \cup
                [exists : {TRUE}, senderId : Actors, receiverId : Actors,
                 amount : {parseFloat(<<"5">>)}, expiresAt : {None},
                 status : validStatuses]]] :
     \A r \in StoreRequestIds :
        db.fundRequests[r].exists =>
          /\ db.users[db.fundRequests[r].senderId].exists
          /\ db.users[db.fundRequests[r].receiverId].exists}

InitPatch ==
  /\ InitState /\ mounted = "Api" /\ env = EnvAny
  /\ now = 0
  /\ \E db \in PatchTables : users = db.users /\ fundRequests = db.fundRequests
  /\ call = NoCall
  /\ result = NoResult

\* PATCH /api/fund-requests/[fid] sent by a client: the route learns the actor
\* from the fid of the request
UpdateByFid(actor, requestId, newStatus) ==
  LET db == PATCH_fund_requests_fid(Tables, actor, requestId, newStatus)
  IN /\ call' = [fn |-> "PATCH_fid", actor |-> actor, requestId |-> requestId,
                 status |-> newStatus]
     /\ result' = [done |-> TRUE, updated |-> db # Tables]
     /\ users' = db.users
     /\ fundRequests' = db.fundRequests
     /\ UNCHANGED << now, clientVars >>

\* updateRequestStatus of the hook, called on the client of `actor`: it sends
\* PATCH /api/fund-requests/[id] with the status alone, and the route reads
\* nothing about who calls
UpdateById(actor, requestId, newStatus) ==
  LET db == PATCH_fund_requests_id(Tables, requestId, newStatus)
  IN /\ call' = [fn |-> "PATCH_id", actor |-> actor, requestId |-> requestId,
                 status |-> newStatus]
     /\ result' = [done |-> TRUE, updated |-> db # Tables]
     /\ users' = db.users
     /\ fundRequests' = db.fundRequests
     /\ UNCHANGED << now, clientVars >>

NextPatch ==
  \/ \E f \in Actors, r \in StoreRequestIds, ns \in PatchInputs : UpdateByFid(f, r, ns)
  \/ \E f \in Actors, r \in StoreRequestIds, ns \in PatchInputs : UpdateById(f, r, ns)

SpecPatch == InitPatch /\ [][NextPatch]_vars


\* ------------------------------------------- two creations of one user
\* Two requests that create the user of one fid run at the same time; each
\* await of a handler is a step.  In this specification a row of `users` is
\* [exists, username], `call` holds the two requests and `result` where each
\* of them is and what it answered.
\* a username: the name, and the fid appended by the fallback (None: nothing)
BaseUsernames == [name : {"alice", "bob"}, suffix : {None}]
NoRow == [exists |-> FALSE, username |-> [name |-> "none", suffix |-> None]]

\* `${username}_${fid}`
fallbackUsername(username, fid) == [name |-> username.name, suffix |-> fid]

\* the tables the unique indexes User_fid_key and User_username_key allow
UserTables ==
  {us \in [StoreFids -> {NoRow} \cup [exists : {TRUE}, username : BaseUsernames]] :
     \A f, g \in StoreFids :
        (f # g /\ us[f].exists /\ us[g].exists) => us[f].username # us[g].username}

CreationRoutes == {"POST_users", "findOrCreateUser"}

\* a request that has not started; a request that is answered
Started == [pc |-> "find", done |-> FALSE, refused |-> FALSE, error |-> FALSE,
            user |-> None]
Answered(user) == [pc |-> "done", done |-> TRUE, refused |-> FALSE, error |-> FALSE,
                   user |-> user]

InitRace ==
  /\ InitState /\ mounted = "Api" /\ env = EnvAny
  /\ now = 0
  /\ users \in UserTables
  /\ fundRequests = [r \in StoreRequestIds |-> NoRequest]
  /\ call \in [fn : {"createUser"}, fid : StoreFids,
               neynarUsername : BaseUsernames,
               route : [1..2 -> CreationRoutes],
               username : [1..2 -> BaseUsernames]]
  /\ result = [i \in 1..2 |-> Started]

\* the username request i creates the user with: the one of its body
\* (POST /api/users) or the one Neynar gives (findOrCreateUser)
usernameOf(i) ==
  IF call.route[i] = "POST_users" THEN call.username[i] ELSE call.neynarUsername

\* the rows findFirst({OR: [{fid}, {username}]}) matches
MatchesFidOrUsername(us, fid, username) ==
  {g \in StoreFids : us[g].exists /\ (g = fid \/ us[g].username = username)}

\* prisma.user.create succeeds: neither unique index is violated
CreateSucceeds(us, fid, username) ==
  /\ ~us[fid].exists
  /\ \A g \in StoreFids : us[g].exists => us[g].username # username

Step(i, r) ==
  /\ result' = [result EXCEPT ![i] = r]
  /\ UNCHANGED << now, users, fundRequests, call, clientVars >>

\* the first lookup: findFirst by fid or username (POST /api/users), whose
\* answer among several matching rows is not ordered, or findUnique by fid
FindExisting(i, pick) ==
  /\ call.fn = "createUser"
  /\ result[i].pc = "find"
  /\ LET matches ==
           IF call.route[i] = "POST_users"
           THEN MatchesFidOrUsername(users, call.fid, usernameOf(i))
           ELSE {g \in {call.fid} : users[g].exists}
     IN IF matches = {} THEN Step(i, [result[i] EXCEPT !.pc = "neynar"])
        ELSE pick \in matches /\ Step(i, Answered(pick))

\* getNeynarUser answers: the user ("user"), null ("null"), or it throws
GetNeynarUser(i, o) ==
  /\ call.fn = "createUser"
  /\ result[i].pc = "neynar"
  /\ IF call.route[i] = "POST_users" \/ o = "user"
     THEN Step(i, [result[i] EXCEPT !.pc = "create"])
     ELSE Step(i, [result[i] EXCEPT !.pc = "done", !.done = TRUE, !.refused = TRUE])

\* prisma.user.create; on P2002 POST /api/users looks the user up again and
\* findOrCreateUser tries the fallback username
CreateRow(i) ==
  /\ call.fn = "createUser"
  /\ result[i].pc = "create"
  /\ IF CreateSucceeds(users, call.fid, usernameOf(i))
     THEN /\ users' = [users EXCEPT ![call.fid] =
                         [exists |-> TRUE, username |-> usernameOf(i)]]
          /\ result' = [result EXCEPT ![i] = Answered(call.fid)]
          /\ UNCHANGED << now, fundRequests, call, clientVars >>
     ELSE Step(i, [result[i] EXCEPT !.pc =
                     IF call.route[i] = "POST_users" THEN "findAfterConflict"
                     ELSE "createFallback"])

\* findOrCreateUser: prisma.user.create with the fallback username
CreateFallbackRow(i) ==
  /\ call.fn = "createUser"
  /\ result[i].pc = "createFallback"
  /\ LET username == fallbackUsername(usernameOf(i), call.fid)
     IN IF CreateSucceeds(users, call.fid, username)
        THEN /\ users' = [users EXCEPT ![call.fid] =
                            [exists |-> TRUE, username |-> username]]
             /\ result' = [result EXCEPT ![i] = Answered(call.fid)]
             /\ UNCHANGED << now, fundRequests, call, clientVars >>
        ELSE Step(i, [result[i] EXCEPT !.pc = "findAfterConflict"])

\* existingAfterConflict: findFirst by fid or username, not ordered; no row
\* is a 409 (POST /api/users) or null (findOrCreateUser)
FindAfterConflict(i, pick) ==
  /\ call.fn = "createUser"
  /\ result[i].pc = "findAfterConflict"
  /\ LET matches == MatchesFidOrUsername(users, call.fid, usernameOf(i))
     IN IF matches = {}
        THEN Step(i, [result[i] EXCEPT !.pc = "done", !.done = TRUE, !.error = TRUE])
        ELSE pick \in matches /\ Step(i, Answered(pick))

NextRace ==
  \/ \E i \in 1..2, pick \in StoreFids : FindExisting(i, pick)
  \/ \E i \in 1..2, o \in {"user", "null", "throws"} : GetNeynarUser(i, o)
  \/ \E i \in 1..2 : CreateRow(i)
  \/ \E i \in 1..2 : CreateFallbackRow(i)
  \/ \E i \in 1..2, pick \in StoreFids : FindAfterConflict(i, pick)

SpecRace == InitRace /\ [][NextRace]_vars


\* ---------------------------------------------------------------- NumberPad
\* The amount is the text the parent holds, a sequence of characters; a key
\* press is one call of handleNumberInput, `call` the prop and the key it ran
\* with and `result.amount` the amount the parent holds after it.
MaxAmountLen == 5
PadDigits == {"0", "1", "2"}
PadKeys == PadDigits \cup {".", "backspace"}
\* NumberPad.tsx, and the variant that reads "0.00" as "0"
PadFiles == {"NumberPad.tsx", "part_001"}

\* str.includes(".")
includesPoint(str) == \E i \in 1..Len(str) : str[i] = "."

\* str.split(".")[1], for a text that includes "."
cents(str) ==
  LET first == CHOOSE i \in 1..Len(str) :
                  str[i] = "." /\ \A j \in 1..(i - 1) : str[j] # "."
      rest == SubSeq(str, first + 1, Len(str))
      stops == {i \in 1..Len(rest) : rest[i] = "."}
  IN IF stops = {} THEN rest ELSE SubSeq(rest, 1, Min(stops) - 1)

\* `currentAmount.includes(".")` and `cents.length >= 2`
hasTwoCentsNever(currentAmount) == FALSE
hasTwoCents(currentAmount) ==
  includesPoint(currentAmount) /\ Len(cents(currentAmount)) >= 2

\* the amount after handleNumberInput(num) ran with the prop `amount`
handleNumberInput(file, amountProp, num) ==
  LET currentAmount == IF file = "part_001" /\ amountProp = <<"0", ".", "0", "0">>
                       THEN <<"0">> ELSE amountProp
  IN IF num = "backspace"
     THEN LET newAmount == SubSeq(currentAmount, 1, Len(currentAmount) - 1)
          IN IF newAmount = << >> \/ newAmount = <<".">> THEN <<"0">> ELSE newAmount
     ELSE IF num = "."
     THEN IF ~includesPoint(currentAmount) THEN currentAmount \o <<".">>
          ELSE amountProp
     ELSE IF currentAmount = <<"0">> THEN <<num>>
     ELSE IF hasTwoCents(currentAmount) THEN amountProp
     ELSE currentAmount \o <<num>>

InitPad ==
  /\ InitState /\ mounted = "Api" /\ env = EnvAny
  /\ now = 0
  /\ users = [f \in StoreFids |-> NoUser]
  /\ fundRequests = [r \in StoreRequestIds |-> NoRequest]
  /\ call \in [fn : {"NumberPad"}, file : PadFiles]
  /\ result = [done |-> FALSE, amount |-> <<"0">>]

\* a key of the pad is pressed
PressKey(num) ==
  /\ call.fn \in {"NumberPad", "handleNumberInput"}
  /\ Len(result.amount) < MaxAmountLen \/ num \notin PadDigits
  /\ call' = [fn |-> "handleNumberInput", file |-> call.file,
              amount |-> result.amount, num |-> num]
  /\ result' = [done |-> TRUE,
                amount |-> handleNumberInput(call.file, result.amount, num)]
  /\ UNCHANGED << now, users, fundRequests, clientVars >>

NextPad == \E num \in PadKeys : PressKey(num)

SpecPad == InitPad /\ [][NextPad]_vars


\* ------------------------------------------------------------------- claims
SettlementTxs(a) == {t \in TxIds : txs[t].kind = "settlement" /\ txs[t].att = a}
ApprovalTxs(a) == {t \in TxIds : txs[t].kind = "approval" /\ txs[t].att = a}
Signed == {"sent", "confirmed", "reverted"}

RECURSIVE SumCompletions(_, _)
SumCompletions(h, a) ==
  IF a = 0 THEN completions[<<h, 0>>]
  ELSE completions[<<h, a>>] + SumCompletions(h, a - 1)

\* C1: the completion side effects (request marked ACCEPTED, popup closed and
\* reset) run at most once for a transaction hash: a confirmation that is
\* presented again for a hash already processed changes nothing.
C1_CompletionOncePerHash ==
  \A h \in TxIds : SumCompletions(h, MaxAttempts) <= 1

\* C2: at most one settlement transaction is handed to the wallet per attempt:
\* for every request (0 stands for the free-form popup) there are no more
\* settlement transactions paying it than attempts that were started for it,
\* in every interleaving of clicks, responses, confirmations and errors.
C2_AtMostOneSettlement ==
  \A r \in 0..NumRequests :
    Cardinality({t \in TxIds : txs[t].kind = "settlement" /\ txs[t].req = r})
      <= Cardinality({a \in AttemptIds : attempts[a].started /\ attempts[a].req = r})

\* C3: in an attempt whose plan requires an approval, the settlement is handed
\* to the wallet only after the approval's signature was obtained.
C3_ApprovalSignedBeforeSettlement ==
  \A a \in AttemptIds :
    (attempts[a].plan = "approval" /\ SettlementTxs(a) # {}) =>
      \E p \in ApprovalTxs(a) : txs[p].st \in Signed

\* C4: completion is triggered only by the confirmed receipt of a settlement
\* transaction; the confirmation of an approval never completes an attempt.
C4_OnlySettlementCompletes ==
  \A e \in events : e[1] = "complete" => txs[e[2]].kind = "settlement"

\* C5: when the payer rejects the approval's signature, no settlement
\* transaction is requested for that attempt.
C5_NoSettlementAfterRejectedApproval ==
  \A a \in AttemptIds :
    (\E p \in ApprovalTxs(a) : txs[p].st = "rejected") => SettlementTxs(a) = {}

\* C6: when the allowance read of an attempt fails, the attempt does not go on
\* to the settlement.
C6_NoSettlementAfterAllowanceFailure ==
  \A a \in AttemptIds : attempts[a].allowanceFailed => SettlementTxs(a) = {}

\* C7: the status of a request changes only from PENDING; a status other than
\* PENDING is terminal.
C7_StatusTerminal ==
  [][\A r \in RequestIds : status[r] # "PENDING" => status'[r] = status[r]]_vars

\* C8: once the client has observed the confirmation of the settlement of a
\* request-initiated payment, the request is ACCEPTED; the free-form PayPopup
\* changes no request status.
C8_ConfirmedSettlementAccepted ==
  /\ mounted \in {"AppA", "AppB"} =>
       \A t \in TxIds :
         (txs[t].kind = "settlement" /\ sendTx = t /\ isTransactionConfirmed) =>
           status[txs[t].req] = "ACCEPTED"
  /\ mounted = "PayPopup" => \A r \in RequestIds : status[r] = "PENDING"

\* C9: a step in which a request-initiated attempt fails leaves every request's
\* status as it was.
C9_FailureLeavesStatus ==
  [][(\E a \in AttemptIds : /\ attempts'[a].kind = "request"
                            /\ attempts'[a].failed
                            /\ ~attempts[a].failed)
       => status' = status]_vars

\* a request-initiated attempt has failed and its request is still PENDING
C9_Witness ==
  \E a \in AttemptIds :
    /\ attempts[a].kind = "request"
    /\ attempts[a].failed
    /\ status[attempts[a].req] = "PENDING"

\* C10: the confirmation or error of a transaction advances, completes or
\* fails only the attempt that sent it.
C10_AttemptsIsolated ==
  \A e \in events : txs[e[2]].att = e[3]


\* the awaited calls that reach the network or the chain before the
\* transaction is built by POST /api/getSwapData
CallsBeforeBuild ==
  {"P_fetchPaymentQuote", "P_switchChainAsync", "P_checkTokenApprovalNeeded",
   "P_sendTransactionAsync", "P_waitForTransactionReceipt",
   "A_checkTokenApprovalNeeded", "B_fetchPaymentQuote", "B_switchChainAsync",
   "B_approval_sendTransactionAsync", "B_waitForTransactionReceipt"}

\* C11: when the receiver's stored address is malformed, no quote request, no
\* network switch, no allowance read and no approval or settlement transaction
\* is made: the payment fails on the address first.
C11_MalformedAddressFailsFirst ==
  ~AddressAccepted(env.address, FALSE) =>
    /\ \A t \in TxIds : txs[t].st = "unused"
    /\ \A i \in TaskIds : tasks[i].pc \notin CallsBeforeBuild

\* C12: an approval transaction is submitted only when the allowance check
\* reports that approval is needed: when the existing allowance covers the
\* required amount, or the transfer is direct, no approval transaction is
\* handed to the wallet and the attempt submits one transaction, the settlement.
C12_ApprovalOnlyWhenNeeded ==
  \A a \in AttemptIds :
    (env.allowance = "covers" \/ attempts[a].plan = "direct") =>
      /\ ApprovalTxs(a) = {}
      /\ Cardinality(SettlementTxs(a)) <= 1

\* the tasks of attempt a
TasksOf(a) == {i \in TaskIds : tasks[i].pc # "idle" /\ tasks[i].att = a}

\* C13: when the quote names another network than the wallet's, an approval is
\* handed to the wallet only once the wallet has been switched to the quoted
\* network; and when the wallet refuses the switch, the attempt submits no
\* approval and no settlement transaction and ends FAILED.
C13_SwitchBeforeApproval ==
  /\ \A i \in TaskIds :
       (/\ tasks[i].target = "quoted"
        /\ tasks[i].tx # None
        /\ txs[tasks[i].tx].kind = "approval") => tasks[i].wallet = "quoted"
  /\ (env.quote = "other" /\ env.switch = "fail") =>
       \A a \in AttemptIds :
         (attempts[a].started /\ attempts[a].plan # "direct" /\ mounted # "AppA") =>
           /\ ApprovalTxs(a) = {}
           /\ SettlementTxs(a) = {}
           /\ TasksOf(a) = {} => attempts[a].failed

\* the wallet refused the switch to the quoted network and the free-form
\* payment has failed with an error message, the popup no longer processing
C13_Witness ==
  /\ env.quote = "other" /\ env.switch = "fail"
  /\ mounted = "PayPopup"
  /\ \E a \in AttemptIds : attempts[a].failed /\ TasksOf(a) = {}
  /\ error /\ ~isProcessing

\* an approval is at the wallet after the wallet was switched to the quoted network
C13_WitnessSwitched ==
  \E i \in TaskIds :
    /\ tasks[i].target = "quoted" /\ tasks[i].wallet = "quoted"
    /\ tasks[i].tx # None /\ txs[tasks[i].tx].kind = "approval"

\* the awaited calls that follow a quote
CallsAfterQuote ==
  {"P_switchChainAsync", "P_checkTokenApprovalNeeded", "P_sendTransactionAsync",
   "P_waitForTransactionReceipt", "P_getSwapData", "P_estimateGas",
   "B_switchChainAsync", "B_approval_sendTransactionAsync",
   "B_waitForTransactionReceipt", "B_ept_getSwapData",
   "B_bridge_sendTransactionAsync"}

\* the attempts that ask for a quote: every free-form payment, and the request
\* payments of App.tsx lines 921-2076 that are not direct transfers
QuotingAttempt(a) ==
  /\ attempts[a].started
  /\ \/ mounted = "PayPopup"
     \/ mounted = "AppB" /\ attempts[a].plan # "direct"

\* C14: when the quote request fails, returns no quote or names an unmapped
\* blockchain, the quote endpoint is called once and not again, no network is
\* assumed in its place, no switch is requested, no transaction is submitted
\* and the attempt ends FAILED.
C14_QuoteFailureFails ==
  env.quote = "fail" =>
    /\ \A i \in TaskIds :
         /\ tasks[i].quotes <= 1
         /\ tasks[i].target = "none" /\ tasks[i].wallet = "selected"
         /\ tasks[i].pc \notin CallsAfterQuote
    /\ \A a \in AttemptIds :
         QuotingAttempt(a) =>
           /\ ApprovalTxs(a) = {} /\ SettlementTxs(a) = {}
           /\ TasksOf(a) = {} => attempts[a].failed

\* no quote was available and the free-form payment has failed with an error
\* message, without a transaction
C14_Witness ==
  /\ env.quote = "fail"
  /\ mounted = "PayPopup"
  /\ \E a \in AttemptIds : attempts[a].failed /\ TasksOf(a) = {}
  /\ error /\ ~isProcessing
  /\ \A t \in TxIds : txs[t].st = "unused"

\* C15: when the wait for the receipt of a submitted approval errors, the
\* attempt does not fail and does not stop: the same step takes it on to the
\* settlement (the request for the settlement transaction).
C15_WaitErrorProceeds ==
  [][\A i \in TaskIds :
       (/\ tasks[i].pc \in {"P_waitForTransactionReceipt", "B_waitForTransactionReceipt"}
        /\ txs[tasks[i].tx].wait # "error"
        /\ txs'[tasks[i].tx].wait = "error")
         => /\ tasks'[i].pc \in {"P_getSwapData", "B_ept_getSwapData"}
            /\ tasks'[i].att = tasks[i].att
            /\ attempts'[tasks[i].att].failed = attempts[tasks[i].att].failed]_vars

\* the wait for an approval's receipt errored and the settlement of the same
\* attempt was handed to the wallet
C15_Witness ==
  \E p \in TxIds :
    /\ txs[p].kind = "approval" /\ txs[p].wait = "error"
    /\ ~attempts[txs[p].att].failed
    /\ SettlementTxs(txs[p].att) # {}

\* C16: a settlement transaction is handed to the wallet only if the build
\* response passed validation: `to` is 0x-prefixed and 42 characters long,
\* `data` is 0x-prefixed and not implausibly short.
C16_SettlementOnlyIfValidated ==
  (\E t \in TxIds : txs[t].kind = "settlement") =>
    PopupTransactionValid(env.transaction)

\* C17: a handler never goes on with a substituted asset or substituted
\* decimals: after a quote it works with the quote's token symbol and the
\* quote's decimals, and when the quote lacks one of them the attempt fails.
C17_NoDefaultAsset ==
  \A i \in TaskIds :
    /\ tasks[i].token \in {"none", "quoted"}
    /\ tasks[i].decimals \in {"none", "quoted"}

\* C18: on a route with a quote, the allowance is read on the quoted network
\* and the approval is handed to a wallet that is on the quoted network, not on
\* the network that was selected when Pay was pressed.
C18_QuotedNetworkUsed ==
  \A i \in TaskIds :
    /\ tasks[i].pc = "P_checkTokenApprovalNeeded" =>
         publicClient(Cur, i) = tasks[i].target
    /\ tasks[i].pc \in {"P_sendTransactionAsync", "B_approval_sendTransactionAsync"} =>
         tasks[i].wallet = tasks[i].target

\* C19: when the settlement transaction of an attempt reverts, the attempt
\* eventually fails and the client leaves its processing state.
C19_RevertedSettlementFails ==
  \A t \in TxIds :
    (txs[t].kind = "settlement" /\ txs[t].st = "reverted")
      ~> (/\ txs[t].att # None
          /\ attempts[txs[t].att].failed
          /\ ~isProcessing
          /\ paymentStep = "null")

\* C20: a step in which an attempt fails records a reason (the error message
\* of the popup) and leaves no attempt-scoped state behind: no processing or
\* step flag, no paying request, no processed-hash guard.
C20_FailureResets ==
  [][(\E a \in AttemptIds : attempts'[a].failed /\ ~attempts[a].failed) =>
       /\ mounted = "PayPopup" => error'
       /\ ~isProcessing' /\ ~isApprovalStep' /\ ~isBridgeStep'
       /\ processedTransactions' = {}
       /\ paymentStep' = "null"
       /\ currentPayingRequest' = None /\ payingRequestId' = None
       /\ lastProcessedHashRef' = None]_vars

\* C21: once the approval of a free-form payment has been broadcast and the
\* payer has closed the pay popup (the popup is closed and the attempt was not
\* completed), no step hands a settlement transaction to the wallet.
C21_NoSettlementAfterClose ==
  [][\A t \in TxIds :
       (/\ mounted = "PayPopup"
        /\ ~showPayPopup
        /\ \A e \in events : e[1] # "complete"
        /\ \E p \in TxIds : txs[p].kind = "approval" /\ txs[p].st \in Signed)
         => ~(txs[t].st = "unused" /\ txs'[t].kind = "settlement")]_vars

\* C22: a PENDING request whose expiresAt has passed is not moved to ACCEPTED:
\* no step of the server takes such a request to ACCEPTED.
C22_ExpiredNotAccepted ==
  [][\A r \in StoreRequestIds :
       (/\ fundRequests[r].exists
        /\ fundRequests[r].status = "PENDING"
        /\ fundRequests[r].expiresAt # None
        /\ fundRequests[r].expiresAt < now)
         => fundRequests'[r].status # "ACCEPTED"]_vars

\* C22: a request whose expiresAt has passed is no longer PENDING.
C22_ExpiredByTime ==
  \A r \in StoreRequestIds :
    (/\ fundRequests[r].exists
     /\ fundRequests[r].expiresAt # None
     /\ fundRequests[r].expiresAt < now)
      => fundRequests[r].status # "PENDING"

\* C24: the preferences of a stored user name a (network, asset) combination
\* of the registry: the stored asset is registered on the stored network.
C24_PreferenceRegistered ==
  \A f \in StoreFids :
    users[f].exists =>
      getTokenInfo(CHAIN_ENUM_TO_ID[users[f].preferredChain],
                   TOKEN_ENUM_TO_SYMBOL[users[f].preferredToken]) # undefined

\* the address convention of a network: a public key where the network is
\* Solana, a "0x"-prefixed 42-character account address elsewhere
AddressFollowsConvention(addr, chainId) ==
  /\ ~addr.ellipsis
  /\ IF chainId = 1329 THEN ~addr.prefix0x /\ addr.len \in 32..44
     ELSE addr.prefix0x /\ addr.len = 42

\* C25: every stored user's preferredAddress has the format of the address
\* convention of the user's preferred network.
C25_StoredAddressFollowsConvention ==
  \A f \in StoreFids :
    users[f].exists =>
      AddressFollowsConvention(users[f].preferredAddress,
                               CHAIN_ENUM_TO_ID[users[f].preferredChain])

\* the text is a decimal literal and nothing else
Numeric(str) ==
  LET i == IF Len(str) > 0 /\ str[1] = "-" THEN 2 ELSE 1
      ni == DigitRun(str, i)
      nf == IF i + ni <= Len(str) /\ str[i + ni] = "." THEN DigitRun(str, i + ni + 1) ELSE 0
      read == (i - 1) + ni + (IF i + ni <= Len(str) /\ str[i + ni] = "." THEN 1 + nf ELSE 0)
  IN ni + nf > 0 /\ read = Len(str)

\* C26: whatever the tables hold, a creation request whose amount is not
\* positive or not a number leaves them as they are (no request and no user is
\* created), by each of the three creation routes; and every stored request has
\* a positive amount.
C26_BadAmountLeavesStore ==
  /\ \A r \in StoreRequestIds :
       fundRequests[r].exists =>
         ~isNaN(fundRequests[r].amount) /\ ~AtMostZero(fundRequests[r].amount)
  /\ FreeRequestIds(fundRequests) # {} =>
       \A a \in AmountTexts :
         (~Numeric(a) \/ AtMostZero(parseFloat(a))) =>
           \A s, r \in StoreFids, e \in ExpiresAtInputs :
             /\ POST_fund_requests(Tables, s, r, a, e) = Tables
             /\ POST_fund_requests_add(Tables, s, r, a, e) = Tables
             /\ \A oS, oR \in NeynarOutcomes :
                  POST_fund_requests_findOrCreate(Tables, s, r, a, e, oS, oR) = Tables

\* C23: a payment whose amount is not a number or is not positive is rejected
\* with a validation error, and the bridge provider is not called for it.
C23_BadAmountRejected ==
  (/\ call.fn = "getSwapData"
   /\ result.done
   /\ isNaN(parseFloat(call.amount)) \/ AtMostZero(parseFloat(call.amount)))
    => result.status # 200 /\ ~result.providerCalled

\* C30: a request whose receiver's preferredAddress holds an ellipsis is
\* rejected, whatever its other fields hold, and the bridge provider is not
\* called for it.
C30_EllipsisRejected ==
  (/\ call.fn = "getSwapData"
   /\ result.done
   /\ call.receiver.exists
   /\ call.receiver.preferredAddress.ellipsis)
    => result.status = 400 /\ ~result.providerCalled

\* an elided address of the right length and prefix, in a request whose other
\* fields are all valid, was rejected
C30_Witness ==
  /\ call.fn = "getSwapData"
  /\ result.done
  /\ call.receiver = [exists |-> TRUE, preferredChain |-> "BASE",
                      preferredToken |-> "USDC", preferredAddress |-> ElidedAddress]
  /\ call.amount = <<"5">>
  /\ call.sourceChainId = 8453
  /\ call.sourceTokenSymbol = "USDC"
  /\ result.status = 400

\* the call under way is a check of a token that is registered on its network
CheckOfRegisteredToken ==
  /\ call.fn = "checkTokenApprovalNeeded"
  /\ result.done
  /\ getTokenInfo(call.chainId, call.tokenSymbol) # undefined

\* floor(digits / 10^scale * 10^decimals), in exact arithmetic
ExactFloor(x, decimals) ==
  IF decimals >= x.scale THEN MulPow10(BigOf(x.digits), decimals - x.scale)
  ELSE DivPow10(BigOf(x.digits), x.scale - decimals).q

\* C27: for a positive decimal amount and a registered token, requiredAmount is
\* floor(amount * 10^decimals) exactly.
C27_RoundDownExact ==
  (/\ CheckOfRegisteredToken
   /\ Numeric(call.amount) /\ ~AtMostZero(parseFloat(call.amount))
   /\ result.allowanceRead /\ ~result.threw)
    => result.requiredAmount =
         ExactFloor(parseFloat(call.amount),
                    getTokenInfo(call.chainId, call.tokenSymbol).decimals)

\* C27: requiredAmount is never more than what the payer typed.
C27_NeverMore ==
  (/\ CheckOfRegisteredToken
   /\ Numeric(call.amount) /\ ~AtMostZero(parseFloat(call.amount))
   /\ result.allowanceRead /\ ~result.threw)
    => ~Less(ExactFloor(parseFloat(call.amount),
                        getTokenInfo(call.chainId, call.tokenSymbol).decimals),
             result.requiredAmount)

\* the answer {needsApproval: false, requiredAmount: 0} without a throw and
\* without a read of the allowance
NoOpAnswer ==
  /\ ~result.threw
  /\ ~result.needsApproval
  /\ result.requiredAmount = << >>
  /\ ~result.allowanceRead

C29_NativeNeverApproves ==
  (/\ result.done
   /\ call.fn \in {"checkTokenApprovalNeeded", "popupApproval", "executeApprovalForRequest"}
   /\ call.chainId \in DOMAIN SUPPORTED_CHAINS
   /\ getGatewayAddress(call.chainId) = "Native Integration")
    => /\ CheckOfRegisteredToken => ~result.threw /\ ~result.needsApproval
       /\ call.fn # "checkTokenApprovalNeeded" => ~result.submitted

\* USDC on Solana was checked for the amount "5" with nothing approved
C29_Witness ==
  /\ CheckOfRegisteredToken
  /\ call.chainId = 1329
  /\ call.tokenSymbol = "USDC"
  /\ call.amount = <<"5">>
  /\ call.allowance = [throws |-> FALSE, value |-> << >>]
  /\ ~result.needsApproval

\* C31: the plan builder refuses a 44-character public-key address when the
\* receiver's preferred network is an account-model network, and a
\* 42-character "0x" address when it is a public-key-model network, for every
\* registered network, the ones without a gateway contract included.
C31_AddressMatchesNetwork ==
  (/\ call.fn = "getSwapData"
   /\ result.done
   /\ call.receiver.exists
   /\ CHAIN_ENUM_TO_ID[call.receiver.preferredChain] \in DOMAIN SUPPORTED_CHAINS)
    => LET chainId == CHAIN_ENUM_TO_ID[call.receiver.preferredChain]
           addr == call.receiver.preferredAddress
           refused == result.status # 200 /\ ~result.providerCalled
       IN /\ (TokenAddressStyle[chainId] = "0x" /\ ~addr.prefix0x /\ addr.len = 44)
               => refused
          /\ (TokenAddressStyle[chainId] = "base58" /\ addr.prefix0x /\ addr.len = 42)
               => refused

\* a receiver on Movement (no gateway contract) with a public-key address is
\* refused for the address, everything else in the request being in order
C31_Witness ==
  /\ call.fn = "getSwapData"
  /\ result.done
  /\ call.receiver = [exists |-> TRUE, preferredChain |-> "MOVEMENT",
                      preferredToken |-> "USDC", preferredAddress |-> SolanaAddress]
  /\ call.amount = <<"5">>
  /\ call.sourceChainId = 8453
  /\ call.sourceTokenSymbol = "USDC"
  /\ result.status = 400

\* the pair is an entry of the registry
Registered(chainId, symbol) ==
  /\ chainId \in DOMAIN SUPPORTED_CHAINS
  /\ \E x \in SUPPORTED_CHAINS[chainId].tokens : x.symbol = symbol

\* C32: for every (network, symbol) that is not in the registry getTokenInfo
\* answers not-found, without throwing and without a default token, and
\* getTokensForChain answers the empty list for a network that is not
\* registered.
C32_LookupsTotal ==
  /\ (/\ call.fn = "getTokenInfo"
      /\ result.done
      /\ ~Registered(call.chainId, call.tokenSymbol))
       => ~result.threw /\ result.value = undefined
  /\ (/\ call.fn = "getTokensForChain"
      /\ result.done
      /\ call.chainId \notin DOMAIN SUPPORTED_CHAINS)
       => ~result.threw /\ result.value = {}

\* a symbol that a registered network does not list has been looked up
C32_Witness ==
  /\ call.fn = "getTokenInfo"
  /\ call.chainId = 8453
  /\ call.tokenSymbol = "USDT"
  /\ result.done
  /\ result.value = undefined

\* C33: the status of a request is changed only by its sender or its receiver:
\* an update sent by any other actor, through either status-update endpoint,
\* leaves the request as it was.
C33_OnlyPartiesUpdate ==
  [][\A r \in StoreRequestIds :
       fundRequests'[r] # fundRequests[r]
         => call'.actor \in {fundRequests[r].senderId, fundRequests[r].receiverId}]_vars

\* an approval or settlement transaction of a payment of request r is with the
\* wallet or broadcast and not mined, and the attempt has not been marked failed
PaymentInFlight(r) ==
  \E t \in TxIds :
     /\ txs[t].req = r
     /\ txs[t].st \in {"prompt", "sent"}
     /\ ~attempts[txs[t].att].failed

\* C34: Pay and Deny exclude each other: while a payment of a request is in
\* flight, from the start of paying to its DONE or FAILED outcome, the request
\* cannot be denied.
C34_NoDenyWhilePaying ==
  \A r \in RequestIds : PaymentInFlight(r) => ~DenyEnabled(r)

\* C35: two concurrent requests that create the user of one fid leave exactly
\* one row of that fid, and both answer with that row, not with an error.
C35_BothReturnTheUser ==
  (/\ call.fn = "createUser"
   /\ \A i \in 1..2 : result[i].done /\ ~result[i].refused)
    => /\ users[call.fid].exists
       /\ \A i \in 1..2 : ~result[i].error /\ result[i].user = call.fid

\* C36: from the amount "0", after any sequence of key presses of the number
\* pad (digits, decimal point, backspace) the amount is never empty, holds at
\* most one decimal point and at most two digits after it.
C36_AmountWellFormed ==
  call.fn \in {"NumberPad", "handleNumberInput"}
    => /\ result.amount # << >>
       /\ Cardinality({i \in 1..Len(result.amount) : result.amount[i] = "."}) <= 1
       /\ includesPoint(result.amount) => Len(cents(result.amount)) <= 2

\* a digit was pressed on an amount with two digits after the point, and the
\* last digit of an amount was erased
C36_Witness ==
  /\ call.fn = "handleNumberInput"
  /\ \/ /\ call.amount = <<"1", ".", "2", "1">>
        /\ call.num = "2"
        /\ result.amount = call.amount
     \/ /\ call.amount = <<"0", ".">>
        /\ call.num = "backspace"
        /\ result.amount = <<"0">>

====
